---- MODULE Spec2Model ----
(***************************************************************************)
(* Model of the adaptive fusion engine of hcis_project                     *)
(* (src/src/models/fusion_module.py, class HCISFusionEngine).              *)
(*                                                                         *)
(* Numbers are exact rationals [num, den] in lowest terms with den > 0, in *)
(* the units of the source (a score of 83.77 is 8377/100, a weight of 0.40 *)
(* is 2/5).  Python's binary floats differ from these values by rounding   *)
(* errors of the order of 1e-14; the inputs used below keep every compared *)
(* quantity much further than that from the value it is compared with, or  *)
(* exactly representable.                                                  *)
(***************************************************************************)
EXTENDS Integers, Sequences, FiniteSets, TLC

VARIABLES default_weights, thresholds,
          video_result, audio_result, text_result,
          pc, outcome, result, locals,
          analysis,
          calls,
          files, history, requests,
          helper

vars == <<default_weights, thresholds, video_result, audio_result,
          text_result, pc, outcome, result, locals, analysis, calls,
          files, history, requests, helper>>

\* the engine of the pipeline and the calls in progress on it and on the
\* helper functions
engine == <<default_weights, thresholds, video_result, audio_result,
            text_result, pc, outcome, result, locals, analysis, calls, helper>>

\* the upload folder, history.json and the requests of the web application
server == <<files, history, requests>>

(***************************************************************************)
(* Rational arithmetic                                                     *)
(***************************************************************************)
Abs(n) == IF n < 0 THEN -n ELSE n

RECURSIVE GCD(_, _)
GCD(a, b) == IF b = 0 THEN a ELSE GCD(b, a % b)

Rat(n, d) ==
    LET g == GCD(Abs(n), d)
    IN  [num |-> n \div g, den |-> d \div g]

Zero == Rat(0, 1)
One == Rat(1, 1)

RatAdd(a, b) ==
    IF a.num = 0 THEN b
    ELSE IF b.num = 0 THEN a
    ELSE IF a.den = b.den THEN Rat(a.num + b.num, a.den)
    ELSE LET g == GCD(a.den, b.den)
             l == (a.den \div g) * b.den
         IN  Rat(a.num * (l \div a.den) + b.num * (l \div b.den), l)

RatSub(a, b) == RatAdd(a, [num |-> -b.num, den |-> b.den])

RatMul(a, b) == Rat(a.num * b.num, a.den * b.den)

\* a / b for b > 0
RatDiv(a, b) == Rat(a.num * b.den, a.den * b.num)

RatLT(a, b) == a.num * b.den < b.num * a.den
RatLE(a, b) == a.num * b.den <= b.num * a.den
RatGT(a, b) == RatLT(b, a)
RatGE(a, b) == RatLE(b, a)

Pow10(nd) == IF nd = 0 THEN 1 ELSE IF nd = 1 THEN 10 ELSE IF nd = 2 THEN 100 ELSE 1000

\* x is exactly halfway between two multiples of 10^-nd
IsTie(x, nd) == 2 * ((x.num * Pow10(nd)) % x.den) = x.den

\* round(x, nd) and the {:.<nd>f} formats: the nearest multiple of 10^-nd.
\* A decimal tie x.xx5 is not a binary float: the float that stands for it
\* lies just below or just above, so the tie goes down or up (up says which).
RoundTie(x, nd, up) ==
    LET s == Pow10(nd)
        n == x.num * s
        q == n \div x.den
        r == n % x.den
        k == IF 2 * r > x.den \/ (2 * r = x.den /\ up) THEN q + 1 ELSE q
    IN  Rat(k, s)

\* round(x, nd) of a value that has at most nd decimals
Round(x, nd) == RoundTie(x, nd, FALSE)

\* the values round(x, nd) can produce
RoundSet(x, nd) ==
    IF IsTie(x, nd) THEN {RoundTie(x, nd, FALSE), RoundTie(x, nd, TRUE)}
    ELSE {RoundTie(x, nd, FALSE)}

(***************************************************************************)
(* Python values and the three arguments of fuse                           *)
(***************************************************************************)
Modalities == <<"video", "audio", "text">>
ModalitySet == {"video", "audio", "text"}

\* a dictionary value: a number, or a non-numeric object (a string)
Num(q) == [t |-> "num", q |-> q]
Str == [t |-> "str", q |-> Zero]
\* float('nan'): every comparison with it is false, so it weighs as 0 does
NaN == [t |-> "nan", q |-> Zero]
Msg(text) == [t |-> "str", q |-> Zero, text |-> text]
IsNum(v) == v.t \in {"num", "nan"}
\* round(v, nd) of a float that is nan or has at most nd decimals
RoundValue(v, nd) == IF v.t = "nan" THEN NaN ELSE Round(v.q, nd)

ScoreKey(m) ==
    CASE m = "video" -> "video_score"
      [] m = "audio" -> "audio_score"
      [] m = "text" -> "text_score"

\* an argument: None, a non-mapping object (truthy or falsy), or a dict
NoneArg == [kind |-> "none", truthy |-> FALSE, d |-> <<>>]
ObjArg(b) == [kind |-> "obj", truthy |-> b, d |-> <<>>]
DictArg(d) == [kind |-> "dict", truthy |-> DOMAIN d # {}, d |-> d]


Bool(b) == [t |-> "bool", q |-> IF b THEN One ELSE Zero]

(***************************************************************************)
(* HCISFusionEngine                                                        *)
(***************************************************************************)
\* dict.get(key, 0)
Get(d, key) == IF key \in DOMAIN d THEN d[key] ELSE Num(Zero)

\* `r.get(key, 0) if r else 0`; a truthy object without .get raises
ExtractRaises(r) == r.truthy /\ r.kind # "dict"
Extract(r, key) == IF r.truthy THEN Get(r.d, key) ELSE Num(Zero)

\* IsPresent with `score >= 0`
IsPresentOrZero(score) == RatGE(score, Zero)

\* `score > 0`, the presence test of a modality
IsPresent(score) == RatGT(score, Zero)

\* Multiplier with the two low-confidence branches in the other order
MultiplierSwapped(conf) ==
    IF RatGE(conf, Rat(80, 1)) THEN Rat(13, 10)
    ELSE IF RatGE(conf, Rat(60, 1)) THEN Rat(11, 10)
    ELSE IF RatLT(conf, Rat(50, 1)) THEN Rat(8, 10)
    ELSE IF RatLT(conf, Rat(40, 1)) THEN Rat(6, 10)
    ELSE One

\* Multiplier with `conf <= 40` for the lowest tier
MultiplierUpTo40(conf) ==
    IF RatGE(conf, Rat(80, 1)) THEN Rat(13, 10)
    ELSE IF RatGE(conf, Rat(60, 1)) THEN Rat(11, 10)
    ELSE IF RatLE(conf, Rat(40, 1)) THEN Rat(6, 10)
    ELSE IF RatLT(conf, Rat(50, 1)) THEN Rat(8, 10)
    ELSE One

\* Multiplier with 0.9 in place of 1.1 for the tier from 60 to 80
MultiplierDipFrom60(conf) ==
    IF RatGE(conf, Rat(80, 1)) THEN Rat(13, 10)
    ELSE IF RatGE(conf, Rat(60, 1)) THEN Rat(9, 10)
    ELSE IF RatLT(conf, Rat(40, 1)) THEN Rat(6, 10)
    ELSE IF RatLT(conf, Rat(50, 1)) THEN Rat(8, 10)
    ELSE One

\* the confidence-based multiplier applied to an active modality's weight
Multiplier(conf) ==
    IF RatGE(conf, Rat(80, 1)) THEN Rat(13, 10)
    ELSE IF RatGE(conf, Rat(60, 1)) THEN Rat(11, 10)
    ELSE IF RatLT(conf, Rat(40, 1)) THEN Rat(6, 10)
    ELSE IF RatLT(conf, Rat(50, 1)) THEN Rat(8, 10)
    ELSE One

RECURSIVE SumOver(_, _)
SumOver(f, S) ==
    IF S = {} THEN Zero
    ELSE LET m == CHOOSE x \in S : TRUE
         IN  RatAdd(f[m], SumOver(f, S \ {m}))

\* sum(weights.values())
SumValues(weights) == SumOver(weights, DOMAIN weights)

\* weights = {k: v/total_weight for k, v in weights.items()}
\* Normalize applied only when several modalities are weighted
NormalizeSeveral(weights) ==
    IF Cardinality(DOMAIN weights) > 1
    THEN [k \in DOMAIN weights |-> RatDiv(weights[k], SumValues(weights))]
    ELSE weights

Normalize(weights) ==
    LET total_weight == SumValues(weights)
    IN  [k \in DOMAIN weights |-> RatDiv(weights[k], total_weight)]

\* lines 63-87: the confidence multipliers and the normalization
AdjustAndNormalize(active_modalities, act, conf) ==
    IF Len(active_modalities) > 1 /\ \E m \in act : ~IsNum(conf[m])
    THEN [exception |-> "TypeError", weights |-> <<>>, active_modalities |-> <<>>]
    ELSE [exception |-> "none",
          weights |-> Normalize(
              IF Len(active_modalities) > 1
              THEN [m \in act |-> RatMul(default_weights[m], Multiplier(conf[m].q))]
              ELSE [m \in act |-> default_weights[m]]),
          active_modalities |-> active_modalities]

\* WeightsOf defaulting to audio in place of video
WeightsOfDefaultAudio(active_modalities, conf) ==
    IF active_modalities = <<>>
    THEN [exception |-> "none", weights |-> ("audio" :> One),
          active_modalities |-> <<"audio">>]
    ELSE AdjustAndNormalize(active_modalities,
                            {active_modalities[i] : i \in 1..Len(active_modalities)},
                            conf)

\* WeightsOf without the default to video
WeightsOfNoDefault(active_modalities, conf) ==
    AdjustAndNormalize(active_modalities,
                       {active_modalities[i] : i \in 1..Len(active_modalities)},
                       conf)

\* lines 57-61: no modality detected, default to video only
WeightsOf(active_modalities, conf) ==
    IF active_modalities = <<>>
    THEN [exception |-> "none", weights |-> ("video" :> One),
          active_modalities |-> <<"video">>]
    ELSE AdjustAndNormalize(active_modalities,
                            {active_modalities[i] : i \in 1..Len(active_modalities)},
                            conf)

\* calculate_adaptive_weights that takes every modality for active
calculate_adaptive_weights_all(score, conf) ==
    WeightsOf(Modalities, conf)

\* score and conf map each modality to a value; every score is numeric here
calculate_adaptive_weights(score, conf) ==
    WeightsOf(SelectSeq(Modalities, LAMBDA m : IsPresent(score[m].q)), conf)

\* calculate_weighted_score without the weights: the plain sum of the scores
calculate_weighted_score_sum(score, weights) ==
    LET used == {m \in DOMAIN weights : IsPresent(score[m].q)}
    IN  SumOver([m \in used |-> score[m].q], used)

calculate_weighted_score(score, weights) ==
    LET used == {m \in DOMAIN weights : IsPresent(score[m].q)}
    IN  SumOver([m \in used |-> RatMul(score[m].q, weights[m])], used)

\* determine_verdict with `>` in place of `>=`
determine_verdict_above(final_score) ==
    IF RatGT(final_score, Rat(thresholds.authentic, 1)) THEN "AUTHENTIC"
    ELSE IF RatGT(final_score, Rat(thresholds.suspicious, 1)) THEN "SUSPICIOUS"
    ELSE "LIKELY FAKE"

determine_verdict(final_score) ==
    IF RatGE(final_score, Rat(thresholds.authentic, 1)) THEN "AUTHENTIC"
    ELSE IF RatGE(final_score, Rat(thresholds.suspicious, 1)) THEN "SUSPICIOUS"
    ELSE "LIKELY FAKE"

\* line 249 on the float final_score: with several active modalities the
\* normalised weights and their products with the scores are rounded binary
\* fractions, so a sum worth exactly a threshold may come out one unit in
\* the last place below it, and the verdict is then the lower one.  A single
\* active modality has weight 1.0 and its product is exact.
FloatVerdicts(final_score, active_modalities) ==
    IF /\ Len(active_modalities) > 1
       /\ final_score \in {Rat(thresholds.authentic, 1), Rat(thresholds.suspicious, 1)}
    THEN {determine_verdict(final_score),
          determine_verdict(RatSub(final_score, Rat(1, 100)))}
    ELSE {determine_verdict(final_score)}

\* calculate_confidence with `weights.get(m, default_weights[m])` for every
\* modality, weighted or not
calculate_confidence_all(conf, weights) ==
    LET used == {m \in ModalitySet : IsNum(conf[m]) /\ RatGT(conf[m].q, Zero)}
    IN  SumOver([m \in used |-> RatMul(conf[m].q,
                                       IF m \in DOMAIN weights THEN weights[m]
                                       ELSE default_weights[m])], used)

\* calculate_confidence with the base weights instead of the resolved ones
calculate_confidence_base(conf, weights) ==
    LET used == {m \in DOMAIN weights : RatGT(conf[m].q, Zero)}
    IN  SumOver([m \in used |-> RatMul(conf[m].q, default_weights[m])], used)

\* every conf[m] with m in weights is numeric here
calculate_confidence(conf, weights) ==
    LET used == {m \in DOMAIN weights : RatGT(conf[m].q, Zero)}
    IN  SumOver([m \in used |-> RatMul(conf[m].q, weights[m])], used)

\* Phrase with `score >= 70` for the authentic phrase
PhraseFrom70(s) ==
    IF RatLT(s, Rat(40, 1)) THEN "manipulation"
    ELSE IF RatGE(s, Rat(70, 1)) THEN "authentic"
    ELSE "inconclusive"

\* the phrase chosen for one active modality
Phrase(s) ==
    IF RatLT(s, Rat(40, 1)) THEN "manipulation"
    ELSE IF RatGT(s, Rat(70, 1)) THEN "authentic"
    ELSE "inconclusive"

RECURSIVE MaxOf(_, _)
MaxOf(f, S) ==
    LET m == CHOOSE x \in S : TRUE
    IN  IF S = {m} THEN f[m]
        ELSE LET r == MaxOf(f, S \ {m}) IN IF RatGT(f[m], r) THEN f[m] ELSE r

RECURSIVE MinOf(_, _)
MinOf(f, S) ==
    LET m == CHOOSE x \in S : TRUE
    IN  IF S = {m} THEN f[m]
        ELSE LET r == MinOf(f, S \ {m}) IN IF RatLT(f[m], r) THEN f[m] ELSE r

\* lines 156-178: one phrase per active modality, its weight as {:.1%};
\* up is the set of modalities whose percentage is rounded up at a tie
PhraseList(score, active_modalities, weights, up) ==
    [i \in 1..Len(active_modalities) |->
        [modality |-> active_modalities[i],
         phrase |-> Phrase(score[active_modalities[i]].q),
         number |-> RoundTie(RatMul(weights[active_modalities[i]], Rat(100, 1)), 1,
                             active_modalities[i] \in up)]]

\* line 194: " | ".join(explanations) if explanations else "Analysis complete"
Joined(explanations) ==
    IF explanations = <<>>
    THEN <<[modality |-> "none", phrase |-> "Analysis complete", number |-> Zero]>>
    ELSE explanations

\* lines 189-192: the variance note, the range as {:.0f}
WithVarianceNote(phrases, n, score_range) ==
    IF n > 1 /\ RatGT(score_range, Rat(40, 1))
    THEN {Append(phrases, [modality |-> "all", phrase |-> "variance", number |-> r]) :
             r \in RoundSet(score_range, 0)}
    ELSE {Joined(phrases)}

ActiveScores(score, act) == [m \in act |-> score[m].q]

ScoreRange(sc, act) == RatSub(MaxOf(sc, act), MinOf(sc, act))

\* the modalities whose weight percentage is a rounding tie
TiedPercents(weights) ==
    {k \in DOMAIN weights : IsTie(RatMul(weights[k], Rat(100, 1)), 1)}

\* the explanation, as the list of its parts (the lists the call can produce)
generate_explanation(score, final_score, verdict, active_modalities, weights) ==
    UNION {WithVarianceNote(
               PhraseList(score, active_modalities, weights, up),
               Len(active_modalities),
               ScoreRange(ActiveScores(score, {active_modalities[i] : i \in 1..Len(active_modalities)}),
                          {active_modalities[i] : i \in 1..Len(active_modalities)})) :
           up \in SUBSET TiedPercents(weights)}

\* {k: round(v, 3) for k, v in weights.items()} (the mappings it can produce)
RoundedWeights(weights) ==
    {[k \in DOMAIN weights |-> RoundTie(weights[k], 3, k \in up)] :
        up \in SUBSET {k \in DOMAIN weights : IsTie(weights[k], 3)}}

\* `except TypeError as e`
CatchesTypeError(exception) == exception = "TypeError"

\* `except Exception as e`
Catches(exception) == TRUE

ErrorRecord(exception) ==
    [success |-> FALSE, error |-> exception, fusion_score |-> Zero,
     video_score |-> Zero, audio_score |-> Zero, text_score |-> Zero,
     verdict |-> "ERROR"]

Failed(e) == [exception |-> e, locals |-> [exception |-> e], rets |-> {}]

\* lines 256-285: the explanation and the returned record
FuseReturn(score, conf, weights, active_modalities, weighted_score, consistency_penalty, final_score, verdicts, overall_confidence) ==
    [exception |-> "none",
     locals |-> [exception |-> "none",
                 video_score |-> score["video"].q,
                 audio_score |-> score["audio"].q,
                 text_score |-> score["text"].q,
                 video_conf |-> conf["video"].q,
                 audio_conf |-> conf["audio"].q,
                 text_conf |-> conf["text"].q,
                 weights |-> weights,
                 active_modalities |-> active_modalities,
                 weighted_score |-> weighted_score,
                 consistency_penalty |-> consistency_penalty,
                 final_score |-> final_score,
                 overall_confidence |-> overall_confidence],
     rets |-> UNION {{[success |-> TRUE,
                fusion_score |-> fs,
                verdict |-> verdict,
                confidence |-> oc,
                active_modalities |-> active_modalities,
                adaptive_weights |-> aw,
                video_score |-> RoundValue(score["video"], 2),
                audio_score |-> RoundValue(score["audio"], 2),
                text_score |-> RoundValue(score["text"], 2),
                component_confidences |-> [m \in ModalitySet |-> Round(conf[m].q, 2)],
                consistency_penalty |-> Zero,
                explanation |-> ex] :
               fs \in RoundSet(final_score, 2),
               oc \in RoundSet(overall_confidence, 2),
               aw \in RoundedWeights(weights),
               ex \in generate_explanation(score, final_score, verdict,
                                           active_modalities, weights)} :
               verdict \in verdicts}]

\* the superseded policy: 10 points off when the active scores are more
\* than 40 apart
VariancePenalty(score, active_modalities) ==
    IF Len(active_modalities) > 1
       /\ RatGT(ScoreRange(ActiveScores(score, {active_modalities[i] : i \in 1..Len(active_modalities)}),
                           {active_modalities[i] : i \in 1..Len(active_modalities)}),
                Rat(40, 1))
    THEN Rat(10, 1)
    ELSE Zero

\* FuseScored with the variance penalty subtracted
FuseScoredWithPenalty(score, conf, weights, active_modalities, weighted_score) ==
    FuseReturn(score, conf, weights, active_modalities, weighted_score,
               VariancePenalty(score, active_modalities),
               RatSub(weighted_score, VariancePenalty(score, active_modalities)),
               {determine_verdict(RatSub(weighted_score,
                                         VariancePenalty(score, active_modalities)))},
               calculate_confidence(conf, weights))

\* lines 242-254: consistency_penalty = 0, final_score = weighted_score,
\* the verdict and the overall confidence
FuseScored(score, conf, weights, active_modalities, weighted_score) ==
    FuseReturn(score, conf, weights, active_modalities, weighted_score,
               Zero, weighted_score,
               FloatVerdicts(weighted_score, active_modalities),
               calculate_confidence(conf, weights))

\* lines 227-240: the progress lines (formatting a non-numeric confidence
\* with .1f raises), a non-numeric confidence (comparing or rounding it
\* raises), the weighted score
FuseWeighted(score, conf, aw) ==
    IF aw.exception # "none"
    THEN Failed(aw.exception)
    ELSE IF \E m \in ModalitySet : IsPresent(score[m].q) /\ ~IsNum(conf[m])
    THEN Failed("ValueError")
    ELSE IF \E m \in ModalitySet : ~IsNum(conf[m])
    THEN Failed("TypeError")
    ELSE FuseScored(score, conf, aw.weights, aw.active_modalities,
                    calculate_weighted_score(score, aw.weights))

\* lines 221-225: comparing a non-numeric score with 0 raises
FuseExtracted(score, conf) ==
    IF \E m \in ModalitySet : ~IsNum(score[m])
    THEN Failed("TypeError")
    ELSE FuseWeighted(score, conf, calculate_adaptive_weights(score, conf))

\* lines 211-219: the scores and confidences of the three arguments
FuseArgs(arg) ==
    IF \E m \in ModalitySet : ExtractRaises(arg[m])
    THEN Failed("AttributeError")
    ELSE FuseExtracted([m \in ModalitySet |-> Extract(arg[m], ScoreKey(m))],
                       [m \in ModalitySet |-> Extract(arg[m], "confidence")])

\* the body of the try block: the exception it raises ("none" if it returns),
\* the local variables and the records it can return
FuseBody(v, a, t) ==
    FuseArgs([m \in ModalitySet |->
                 IF m = "video" THEN v ELSE IF m = "audio" THEN a ELSE t])

\* lines 210, 287-299: the try block returns, or its exception is caught and
\* converted to the error record
TryExcept(b) ==
    IF b.exception = "none"
    THEN [outcome |-> "returned", results |-> b.rets, locals |-> b.locals]
    ELSE IF Catches(b.exception)
    THEN [outcome |-> "returned", results |-> {ErrorRecord(b.exception)},
          locals |-> b.locals]
    ELSE [outcome |-> "raised", results |-> {<<>>}, locals |-> b.locals]

\* fuse(video_result, audio_result, text_result): what the call does
\* ("returned" or "raised"), the records it can return and the locals of
\* the try block
fuse(v, a, t) ==
    TryExcept(FuseBody(v, a, t))

(***************************************************************************)
(* The records a caller passes to fuse                                     *)
(***************************************************************************)
\* scores and confidences as the analyzers report them (two decimals): the
\* ends of the range, both sides of each verdict threshold and of each
\* confidence tier, the values of the engine's own test (TEST 1), and an
\* audio score 40 and 40.01 above two of the video and text scores
TestScore(m) ==
    CASE m = "video" -> Rat(8377, 100)
      [] m = "audio" -> Rat(58, 1)
      [] m = "text" -> Rat(5983, 100)

TestConf(m) ==
    CASE m = "video" -> Rat(90, 1)
      [] m = "audio" -> Rat(45, 1)
      [] m = "text" -> Rat(40, 1)

ScoreValues(m) ==
    {Rat(0, 1), Rat(3999, 100), Rat(40, 1), Rat(6999, 100), Rat(70, 1),
     Rat(100, 1), TestScore(m)}
        \cup (IF m = "audio" THEN {Rat(80, 1)} ELSE {})

\* one confidence in each tier, on the tier's lower boundary
ConfValues == {Rat(0, 1), Rat(40, 1), Rat(50, 1), Rat(60, 1), Rat(80, 1)}

Record(m, ok, s, c) ==
    DictArg((ScoreKey(m) :> s) @@ ("confidence" :> c) @@ ("success" :> Bool(ok)))

\* a video analysis that scored 85 with confidence 80
ScenarioBRecord == Record("video", TRUE, Num(Rat(85, 1)), Num(Rat(80, 1)))

\* the records of a successful analysis
SuccessRecords(m) ==
    {Record(m, TRUE, Num(s), Num(c)) : s \in ScoreValues(m), c \in ConfValues}
        \cup {Record(m, TRUE, Num(TestScore(m)), Num(TestConf(m)))}
        \cup (IF m = "video" THEN {ScenarioBRecord} ELSE {})

\* the record of a failed analysis (score 0, confidence 0), and a record
\* that says success=false but carries a score and a confidence
FailedRecords(m) ==
    {Record(m, FALSE, Num(Zero), Num(Zero)),
     Record(m, FALSE, Num(TestScore(m)), Num(TestConf(m)))}

\* non-mapping objects, the empty dict, non-numeric or missing fields
MalformedArgs(m) ==
    {ObjArg(TRUE), ObjArg(FALSE), DictArg(<<>>),
     Record(m, TRUE, Str, Num(Rat(50, 1))),
     Record(m, TRUE, Num(TestScore(m)), Str),
     Record(m, TRUE, Num(Zero), Str),
     DictArg("success" :> Bool(TRUE))}

Args(m) == {NoneArg} \cup SuccessRecords(m) \cup FailedRecords(m) \cup MalformedArgs(m)

(***************************************************************************)
(* The analyzers.  A call is described by the values its feature           *)
(* computations produce (the libraries that compute them from the media    *)
(* are outside the repository); what the analyzer makes of them is         *)
(* translated from its code.  An analyzer call gives                       *)
(*   [raised |-> the exception that leaves the call, or "none",            *)
(*    rets   |-> the records it can return].                               *)
(***************************************************************************)
\* Python's min(a, b) and max(a, b)
RatMin(a, b) == IF RatLT(b, a) THEN b ELSE a

Returned(recs) == [raised |-> "none", rets |-> recs]
Raised(e) == [raised |-> e, rets |-> {}]

\* FailureRecord carrying the neutral score 50 in place of 0
FailureRecordNeutral(m, error) ==
    DictArg((ScoreKey(m) :> Num(Rat(50, 1))) @@ ("confidence" :> Num(Zero))
                @@ ("success" :> Bool(FALSE)) @@ ("error" :> Msg(error)))

\* {'success': False, 'error': ..., '<m>_score': 0, 'confidence': 0}
FailureRecord(m, error) ==
    DictArg((ScoreKey(m) :> Num(Zero)) @@ ("confidence" :> Num(Zero))
                @@ ("success" :> Bool(FALSE)) @@ ("error" :> Msg(error)))

\* {'success': True, '<m>_score': round(score, 2), 'confidence': round(confidence, 2)}
RoundedRecords(m, score, confidence) ==
    {Record(m, TRUE, Num(s), Num(c)) :
        s \in RoundSet(score, 2), c \in RoundSet(confidence, 2)}

\* detect_artifacts as an if/elif chain: the first condition that holds adds
\* its increment and the others are not looked at
detect_artifacts_first_only(quality_variance, avg_quality, avg_edges) ==
    IF RatGT(quality_variance, Rat(5, 100)) THEN Rat(3, 10)
    ELSE IF RatGT(avg_quality, Rat(95, 100)) \/ RatLT(avg_quality, Rat(3, 10))
    THEN Rat(2, 10)
    ELSE IF RatLT(avg_edges, Rat(5, 100)) \/ RatGT(avg_edges, Rat(3, 10))
    THEN Rat(2, 10)
    ELSE Zero
\* VideoDeepfakeDetector.detect_artifacts, from the three statistics of the
\* frames
detect_artifacts(quality_variance, avg_quality, avg_edges) ==
    RatMin(RatAdd(RatAdd(IF RatGT(quality_variance, Rat(5, 100)) THEN Rat(3, 10) ELSE Zero,
                         IF RatGT(avg_quality, Rat(95, 100)) \/ RatLT(avg_quality, Rat(3, 10))
                         THEN Rat(2, 10) ELSE Zero),
                  IF RatLT(avg_edges, Rat(5, 100)) \/ RatGT(avg_edges, Rat(3, 10))
                  THEN Rat(2, 10) ELSE Zero),
           One)

\* video_score with the artifact score subtracted, in place of its
\* complement added
video_score_less_artifacts(face_consistency, avg_quality, artifact_score, sync_score) ==
    RatMul(RatAdd(RatAdd(RatMul(face_consistency, Rat(30, 100)),
                         RatMul(avg_quality, Rat(25, 100))),
                  RatSub(RatMul(sync_score, Rat(15, 100)),
                         RatMul(artifact_score, Rat(25, 100)))),
           Rat(100, 1))

\* lines 196-209 of analyze_video
video_score(face_consistency, avg_quality, artifact_score, sync_score) ==
    RatMul(RatAdd(RatAdd(RatMul(face_consistency, Rat(30, 100)),
                         RatMul(avg_quality, Rat(25, 100))),
                  RatAdd(RatMul(RatSub(One, artifact_score), Rat(25, 100)),
                         RatMul(sync_score, Rat(15, 100)))),
           Rat(100, 1))

video_confidence(processed) == RatMin(Rat(processed * 100, 50), Rat(100, 1))

\* VideoDeepfakeDetector.analyze_video.  f.frames frames are extracted and
\* f.processed of them survive preprocess_frame; f.raises says that an
\* OpenCV call of detect_artifacts raises on a frame.  The function has no
\* try block.  With no processed frame np.mean([]) is nan.
analyze_video(f) ==
    IF f.frames = 0
    THEN Returned({FailureRecord("video", "Could not extract frames from video")})
    ELSE IF f.processed = 0
    THEN Returned({Record("video", TRUE, NaN, Num(video_confidence(0)))})
    ELSE IF f.raises
    THEN Raised("cv2.error")
    ELSE Returned(RoundedRecords("video",
             video_score(f.face_consistency, f.avg_quality,
                         detect_artifacts(f.quality_variance, f.avg_quality, f.avg_edges),
                         f.sync_score),
             video_confidence(f.processed)))

\* lines 169-183 of analyze_audio
audio_score(voice_naturalness, spectral_authenticity, audio_quality, artifact_score) ==
    RatMin(RatMul(RatAdd(RatAdd(RatMul(RatMin(voice_naturalness, One), Rat(4, 10)),
                                RatMul(RatMin(spectral_authenticity, One), Rat(3, 10))),
                         RatAdd(RatMul(RatMin(audio_quality, One), Rat(2, 10)),
                                RatMul(RatMin(RatSub(One, artifact_score), One), Rat(1, 10)))),
                  Rat(100, 1)),
           Rat(100, 1))

audio_confidence(duration) == RatMin(RatMul(RatDiv(duration, Rat(10, 1)), Rat(100, 1)), Rat(100, 1))

\* AudioDeepfakeDetector.analyze_audio.  f.extracted: ffmpeg or moviepy
\* wrote the audio track; f.loaded: librosa read it; f.raises: a statement
\* of the try block raises after the audio is loaded.
analyze_audio(f, is_video) ==
    IF is_video /\ ~f.extracted
    THEN Returned({FailureRecord("audio", "Could not extract audio from video")})
    ELSE IF ~f.loaded
    THEN Returned({FailureRecord("audio", "Could not load audio file")})
    ELSE IF f.raises
    THEN Returned({FailureRecord("audio", "str(e)")})
    ELSE Returned(RoundedRecords("audio",
             audio_score(f.voice_naturalness, f.spectral_authenticity,
                         f.audio_quality, f.artifact_score),
             audio_confidence(f.duration)))

\* TextFactChecker.analyze_factual_accuracy, from the mean of the best
\* cosine similarities of the claims
analyze_factual_accuracy(avg_similarity) ==
    IF RatGT(avg_similarity, Rat(85, 100)) THEN RatMul(avg_similarity, Rat(95, 100))
    ELSE IF RatGT(avg_similarity, Rat(70, 100)) THEN RatMul(avg_similarity, Rat(85, 100))
    ELSE IF RatGT(avg_similarity, Rat(50, 100)) THEN RatMul(avg_similarity, Rat(70, 100))
    ELSE IF RatGT(avg_similarity, Rat(30, 100)) THEN RatMul(avg_similarity, Rat(50, 100))
    ELSE RatMul(avg_similarity, Rat(30, 100))

\* lines 332-343: the reliability before the bonus
reliability_score(f) ==
    RatAdd(RatAdd(RatMul(f.factual_density, Rat(25, 100)),
                  RatMul(RatMul(analyze_factual_accuracy(f.avg_similarity),
                                RatSub(One, RatMul(f.contradiction_penalty, Rat(1, 2)))),
                         Rat(35, 100))),
           RatAdd(RatAdd(RatMul(f.sentence_quality, Rat(15, 100)),
                         RatMul(f.language_naturalness, Rat(20, 100))),
                  RatMul(RatSub(One, f.hallucination_score), Rat(5, 100))))

\* lines 345-352: the bonus of a very factual text, and the percentage
text_score(f) ==
    RatMin(RatMul(IF RatGT(f.factual_density, Rat(6, 10))
                  THEN RatMin(One,
                              RatAdd(reliability_score(f),
                                     RatMin(Rat(15, 100),
                                            RatMul(RatSub(f.factual_density, Rat(6, 10)),
                                                   Rat(3, 10)))))
                  ELSE reliability_score(f),
                  Rat(100, 1)),
           Rat(100, 1))

\* line 355
base_confidence(claims) == RatMin(Rat(claims * 100, 5), Rat(100, 1))

\* lines 357-363: the two boosts, each with its own cap
density_boost(confidence, factual_density) ==
    IF RatGT(factual_density, Rat(6, 10))
    THEN RatMin(Rat(90, 1), RatAdd(confidence, Rat(15, 1)))
    ELSE confidence

quality_boost(confidence, sentence_quality) ==
    IF RatGT(sentence_quality, Rat(8, 10))
    THEN RatMin(Rat(95, 1), RatAdd(confidence, Rat(10, 1)))
    ELSE confidence

text_confidence(f) ==
    quality_boost(density_boost(base_confidence(f.claims), f.factual_density),
                  f.sentence_quality)

\* TextFactChecker.analyze_text.  f.text_is_none: the argument is None
\* (len(text) is taken before the try block); f.claims: how many claims
\* extract_claims finds; f.raises: a statement of the try block raises.
analyze_text(f) ==
    IF f.text_is_none
    THEN Raised("TypeError")
    ELSE IF f.claims = 0
    THEN Returned({FailureRecord("text", "No claims could be extracted from text")})
    ELSE IF f.raises
    THEN Returned({FailureRecord("text", "str(e)")})
    ELSE Returned(RoundedRecords("text", text_score(f), text_confidence(f)))

(***************************************************************************)
(* The state machine: one engine, called by one client at a time           *)
(***************************************************************************)
NoResult == <<>>
NoLocals == [exception |-> "none"]
\* no analyzer has run in the request
NoAnalysis == [analyzer |-> "none", features |-> <<>>, raised |-> "none"]

\* how many calls of fuse are followed
MaxCalls == 2

\* the requests in flight, the file names and the contents of their uploads
Requests == {1, 2}
UploadNames == {"a.mp4", "b.mp4"}
Contents == {"clipA", "clipB"}

\* os.path.join(UPLOAD_FOLDER, filename), and the path
\* os.path.splitext(video_path)[0] + "_audio.wav" of the extracted track
UploadPath(name) == <<name, "upload">>
AudioPath(name) == <<name, "_audio.wav">>
Paths == {UploadPath(n) : n \in UploadNames} \cup {AudioPath(n) : n \in UploadNames}

\* a file holding the content c, wholly written or not, and no file
File(c, complete) == [content |-> c, complete |-> complete]
NoFile == File("", FALSE)

\* a request that has not arrived
IdleRequest ==
    [pc |-> "idle", filename |-> "", content |-> "", source |-> "",
     video_results |-> NoneArg, audio_results |-> NoneArg,
     fusion_results |-> NoResult, history |-> <<>>]

\* no helper function is running
NoHelper == [function |-> "none"]

\* HCISFusionEngine.__init__, no call made yet; the server has just started
Init ==
    /\ default_weights = [video |-> Rat(40, 100), audio |-> Rat(40, 100),
                          text |-> Rat(20, 100)]
    /\ thresholds = [authentic |-> 70, suspicious |-> 40, likely_fake |-> 0]
    /\ video_result = NoneArg
    /\ audio_result = NoneArg
    /\ text_result = NoneArg
    /\ pc = "idle"
    /\ outcome = "none"
    /\ result = NoResult
    /\ locals = NoLocals
    /\ analysis = NoAnalysis
    /\ calls = 0
    /\ files = [p \in Paths |-> NoFile]
    /\ history = <<>>
    /\ requests = [r \in Requests |-> IdleRequest]
    /\ helper = NoHelper

\* a caller invokes fusion_engine.fuse(v, a, t)
Call(v, a, t) ==
    /\ pc = "idle"
    /\ video_result' = v
    /\ audio_result' = a
    /\ text_result' = t
    /\ pc' = "called"
    /\ UNCHANGED <<default_weights, thresholds, outcome, result, locals, analysis>>
    /\ UNCHANGED <<calls, files, history, requests, helper>>

\* Fuse with `weights = self.default_weights` in place of a new dict: the
\* multiplied, normalized weights of the call stay in the engine
FuseAliasingWeights ==
    /\ pc = "called"
    /\ \E r \in {fuse(video_result, audio_result, text_result)} :
           /\ outcome' = r.outcome
           /\ result' \in r.results
           /\ locals' = r.locals
           /\ default_weights' =
                  IF "weights" \in DOMAIN r.locals
                  THEN [m \in ModalitySet |->
                           IF m \in DOMAIN r.locals.weights
                           THEN r.locals.weights[m] ELSE default_weights[m]]
                  ELSE default_weights
    /\ pc' = "done"
    /\ UNCHANGED <<thresholds, video_result, audio_result, text_result, analysis>>
    /\ UNCHANGED <<calls, files, history, requests, helper>>

\* the whole of fuse runs on the arguments of the call
Fuse ==
    /\ pc = "called"
    /\ \E r \in {fuse(video_result, audio_result, text_result)} :
           /\ outcome' = r.outcome
           /\ result' \in r.results
           /\ locals' = r.locals
    /\ pc' = "done"
    /\ UNCHANGED <<default_weights, thresholds, video_result, audio_result,
                   text_result, analysis>>
    /\ UNCHANGED <<calls, files, history, requests, helper>>

\* the caller takes the record; the request is over
Returning ==
    /\ pc = "done"
    /\ video_result' = NoneArg
    /\ audio_result' = NoneArg
    /\ text_result' = NoneArg
    /\ pc' = "idle"
    /\ outcome' = "none"
    /\ result' = NoResult
    /\ locals' = NoLocals
    /\ UNCHANGED <<default_weights, thresholds, analysis>>
    /\ UNCHANGED <<files, history, requests, helper>>

Return == Returning /\ UNCHANGED calls

\* Return, counting the calls the engine has served
ReturnCounted ==
    /\ calls < MaxCalls
    /\ Returning
    /\ calls' = calls + 1

Next ==
    \/ /\ pc = "idle"
       /\ \E v \in Args("video"), a \in Args("audio"), t \in Args("text") : Call(v, a, t)
    \/ Fuse
    \/ Return

Spec == Init /\ [][Next]_vars

\* scores on and one thousandth under each verdict threshold, and the ends
\* and the middle of the range
BoundaryScores ==
    {Rat(1, 100), Rat(39999, 1000), Rat(40, 1), Rat(55, 1), Rat(69999, 1000),
     Rat(70, 1), Rat(100, 1)}

BoundaryRecords(m) ==
    {Record(m, TRUE, Num(s), Num(c)) : s \in BoundaryScores, c \in ConfValues}

\* fuse called with the record of one modality, whose score is then the
\* final score handed to determine_verdict
BoundaryNext ==
    \/ /\ pc = "idle"
       /\ \/ \E v \in BoundaryRecords("video") : Call(v, NoneArg, NoneArg)
          \/ \E a \in BoundaryRecords("audio") : Call(NoneArg, a, NoneArg)
          \/ \E t \in BoundaryRecords("text") : Call(NoneArg, NoneArg, t)
    \/ Fuse
    \/ Return

BoundarySpec == Init /\ [][BoundaryNext]_vars

\* confidences on and one hundredth under each boundary of the multiplier
\* tiers, and the ends of the range
TierConfs ==
    {Rat(0, 1), Rat(3999, 100), Rat(40, 1), Rat(4999, 100), Rat(50, 1),
     Rat(5999, 100), Rat(60, 1), Rat(7999, 100), Rat(80, 1), Rat(100, 1)}

\* no record, or a record whose score is 0 or positive (a weight depends on
\* the score through `score > 0` alone)
TierArgs(m) ==
    {NoneArg} \cup
    {Record(m, TRUE, Num(s), Num(c)) : s \in {Rat(0, 1), Rat(60, 1)}, c \in TierConfs}

\* fuse called with every combination of presence and confidence tier
TierNext ==
    \/ /\ pc = "idle"
       /\ \E v \in TierArgs("video"), a \in TierArgs("audio"),
             t \in TierArgs("text") : Call(v, a, t)
    \/ Fuse
    \/ Return

TierSpec == Init /\ [][TierNext]_vars

\* the records of the calls followed one after the other on one engine: no
\* record, the record of the engine's own test, a record at the top of the
\* range with a boosting confidence, and a record with a non-numeric score
RepeatedArgs(m) ==
    {NoneArg,
     Record(m, TRUE, Num(TestScore(m)), Num(TestConf(m))),
     Record(m, TRUE, Num(Rat(100, 1)), Num(Rat(80, 1))),
     Record(m, TRUE, Str, Num(Rat(50, 1)))}

\* one engine instance serving call after call
RepeatedNext ==
    \/ /\ pc = "idle"
       /\ \E v \in RepeatedArgs("video"), a \in RepeatedArgs("audio"),
             t \in RepeatedArgs("text") : Call(v, a, t)
    \/ Fuse
    \/ ReturnCounted

RepeatedSpec == Init /\ [][RepeatedNext]_vars

(***************************************************************************)
(* One analysis request: the analyzers run in the order video, audio,     *)
(* text, each on its own input or not at all, and their records are fused *)
(***************************************************************************)
VideoFeature(frames, processed, fc, q, qv, e, sy, raises) ==
    [frames |-> frames, processed |-> processed, face_consistency |-> fc,
     avg_quality |-> q, quality_variance |-> qv, avg_edges |-> e,
     sync_score |-> sy, raises |-> raises]

\* the mean and the variance of frame qualities in [0, 1]: the variance is
\* at most mean*(1 - mean)
QualityStats ==
    {<<Zero, Zero>>, <<Rat(1, 4), Zero>>, <<Rat(1, 4), Rat(1, 10)>>,
     <<Rat(1, 2), Zero>>, <<Rat(1, 2), Rat(1, 10)>>, <<Rat(3, 4), Zero>>,
     <<One, Zero>>}

\* no frame; frames none of which is preprocessed; an OpenCV error; half
\* the frames; every sub-score at both ends of its range (face consistency
\* and lip sync together) and on both sides of each test of detect_artifacts
VideoFeatures ==
    {VideoFeature(0, 0, Zero, Zero, Zero, Zero, Zero, FALSE),
     VideoFeature(50, 0, Zero, Zero, Zero, Zero, Zero, FALSE),
     VideoFeature(50, 50, One, Rat(1, 2), Zero, Rat(1, 10), One, TRUE),
     VideoFeature(25, 25, One, Rat(1, 2), Zero, Rat(1, 10), One, FALSE)}
        \cup {VideoFeature(50, 50, fc, qs[1], qs[2], e, fc, FALSE) :
                fc \in {Zero, One}, qs \in QualityStats,
                e \in {Rat(1, 10), Rat(1, 2)}}

AudioFeature(extracted, loaded, raises, vn, sa, aq, art, duration) ==
    [extracted |-> extracted, loaded |-> loaded, raises |-> raises,
     voice_naturalness |-> vn, spectral_authenticity |-> sa,
     audio_quality |-> aq, artifact_score |-> art, duration |-> duration]

\* no audio track; an unreadable file; an exception; an empty signal (every
\* helper falls back to its neutral value); five seconds; the sub-scores at
\* the ends of their ranges (audio_quality is not bounded by 1)
AudioFeatures ==
    {AudioFeature(FALSE, TRUE, FALSE, One, One, One, Zero, Rat(30, 1)),
     AudioFeature(TRUE, FALSE, FALSE, One, One, One, Zero, Rat(30, 1)),
     AudioFeature(TRUE, TRUE, TRUE, One, One, One, Zero, Rat(30, 1)),
     AudioFeature(TRUE, TRUE, FALSE, Rat(1, 2), Rat(1, 2), Rat(1, 2), Rat(1, 2), Zero),
     AudioFeature(TRUE, TRUE, FALSE, One, One, One, Zero, Rat(5, 1)),
     AudioFeature(TRUE, TRUE, FALSE, Zero, Zero, Zero, One, Rat(30, 1)),
     AudioFeature(TRUE, TRUE, FALSE, One, One, Rat(2, 1), Zero, Rat(30, 1)),
     AudioFeature(TRUE, TRUE, FALSE, Zero, Zero, Rat(2, 1), Zero, Rat(30, 1)),
     AudioFeature(TRUE, TRUE, FALSE, One, One, Zero, One, Rat(30, 1))}

TextFeature(text_is_none, claims, raises, fd, sq, sim, ln, hs, cp) ==
    [text_is_none |-> text_is_none, claims |-> claims, raises |-> raises,
     factual_density |-> fd, sentence_quality |-> sq, avg_similarity |-> sim,
     language_naturalness |-> ln, hallucination_score |-> hs,
     contradiction_penalty |-> cp]

\* language_naturalness, hallucination_score and contradiction_penalty: a
\* text of two long words (0.03 + 0 + 0.1 + 0.1), a natural text, and a
\* natural text with every claim contradicted
TextProfiles ==
    {<<Rat(23, 100), Zero, Zero>>, <<One, Zero, Zero>>, <<One, Zero, One>>}

\* None; no claim; an exception; one claim and five; every sub-score at
\* both ends of its range and on the thresholds of the two boosts
TextFeatures ==
    {TextFeature(TRUE, 0, FALSE, Zero, Zero, Zero, One, Zero, Zero),
     TextFeature(FALSE, 0, FALSE, Zero, Zero, Zero, One, Zero, Zero),
     TextFeature(FALSE, 1, TRUE, Zero, Zero, Zero, One, Zero, Zero)}
        \cup {TextFeature(FALSE, n, FALSE, fd, sq, sim, p[1], p[2], p[3]) :
                n \in {1, 5}, fd \in {Zero, Rat(6, 10), One},
                sq \in {Zero, Rat(8, 10), One}, sim \in {Rat(-1, 1), One},
                p \in TextProfiles}

\* what one analyzer call leaves behind: the record in its variable and the
\* step of the request reached; an exception that leaves the call ends
\* the request
Analyzed(analyzer, f, r, next) ==
    /\ analysis' = [analyzer |-> analyzer, features |-> f, raised |-> r.raised]
    /\ pc' = IF r.raised = "none" THEN next ELSE "failed"

\* pipeline.analyze_video(path)
AnalyzeVideo(f) ==
    /\ pc = "idle"
    /\ \E r \in {analyze_video(f)} :
           /\ Analyzed("video", f, r, "video_done")
           /\ IF r.raised = "none" THEN video_result' \in r.rets
              ELSE video_result' = NoneArg
    /\ UNCHANGED <<default_weights, thresholds, audio_result, text_result,
                   outcome, result, locals>>
    /\ UNCHANGED <<calls, files, history, requests, helper>>

\* the upload is not a video: video_results stays None
SkipVideo ==
    /\ pc = "idle"
    /\ pc' = "video_done"
    /\ analysis' = NoAnalysis
    /\ UNCHANGED <<default_weights, thresholds, video_result, audio_result,
                   text_result, outcome, result, locals>>
    /\ UNCHANGED <<calls, files, history, requests, helper>>

\* pipeline.analyze_audio(path, is_video): on the video when there is one
AnalyzeAudio(f) ==
    /\ pc = "video_done"
    /\ \E r \in {analyze_audio(f, video_result # NoneArg)} :
           /\ Analyzed("audio", f, r, "audio_done")
           /\ IF r.raised = "none" THEN audio_result' \in r.rets
              ELSE audio_result' = NoneArg
    /\ UNCHANGED <<default_weights, thresholds, video_result, text_result,
                   outcome, result, locals>>
    /\ UNCHANGED <<calls, files, history, requests, helper>>

\* a text upload: audio_results stays None
SkipAudio ==
    /\ pc = "video_done"
    /\ pc' = "audio_done"
    /\ analysis' = NoAnalysis
    /\ UNCHANGED <<default_weights, thresholds, video_result, audio_result,
                   text_result, outcome, result, locals>>
    /\ UNCHANGED <<calls, files, history, requests, helper>>

\* pipeline.analyze_text(text_content)
AnalyzeText(f) ==
    /\ pc = "audio_done"
    /\ \E r \in {analyze_text(f)} :
           /\ Analyzed("text", f, r, "text_done")
           /\ IF r.raised = "none" THEN text_result' \in r.rets
              ELSE text_result' = NoneArg
    /\ UNCHANGED <<default_weights, thresholds, video_result, audio_result,
                   outcome, result, locals>>
    /\ UNCHANGED <<calls, files, history, requests, helper>>

\* no text file: text_results stays None
SkipText ==
    /\ pc = "audio_done"
    /\ pc' = "text_done"
    /\ analysis' = NoAnalysis
    /\ UNCHANGED <<default_weights, thresholds, video_result, audio_result,
                   text_result, outcome, result, locals>>
    /\ UNCHANGED <<calls, files, history, requests, helper>>

\* fusion_engine.fuse(video_results, audio_results, text_results) is called
CallFuse ==
    /\ pc = "text_done"
    /\ pc' = "called"
    /\ analysis' = NoAnalysis
    /\ UNCHANGED <<default_weights, thresholds, video_result, audio_result,
                   text_result, outcome, result, locals>>
    /\ UNCHANGED <<calls, files, history, requests, helper>>

\* the exception of an analyzer reaches the caller of the pipeline: the
\* request ends without a fused record
Abort ==
    /\ pc = "failed"
    /\ pc' = "idle"
    /\ video_result' = NoneArg
    /\ audio_result' = NoneArg
    /\ text_result' = NoneArg
    /\ analysis' = NoAnalysis
    /\ UNCHANGED <<default_weights, thresholds, outcome, result, locals>>
    /\ UNCHANGED <<calls, files, history, requests, helper>>

AnalyzerNext ==
    \/ /\ pc = "idle"
       /\ \E f \in VideoFeatures : AnalyzeVideo(f)
    \/ SkipVideo
    \/ /\ pc = "video_done"
       /\ \E f \in AudioFeatures : AnalyzeAudio(f)
    \/ SkipAudio
    \/ /\ pc = "audio_done"
       /\ \E f \in TextFeatures : AnalyzeText(f)
    \/ SkipText
    \/ CallFuse
    \/ Fuse
    \/ Return
    \/ Abort

AnalyzerSpec == Init /\ [][AnalyzerNext]_vars

(***************************************************************************)
(* The web application: requests of /api/analyze in flight together, each  *)
(* uploading a video.  What the libraries compute from a file is a         *)
(* function of the bytes they read.                                        *)
(***************************************************************************)
\* what the frame and lip-sync computations find in a video file
VideoOf(file) ==
    IF file = NoFile
    THEN VideoFeature(0, 0, Zero, Zero, Zero, Zero, Zero, FALSE)
    ELSE IF file.content = "clipA"
    THEN VideoFeature(50, 50, One, Rat(1, 2), Zero, Rat(1, 10), One, FALSE)
    ELSE VideoFeature(50, 50, Zero, Rat(1, 4), Rat(1, 10), Rat(1, 2), Zero, FALSE)

\* what the audio computations find in an extracted track: nothing when no
\* track could be extracted; of a track still being written, a file librosa
\* cannot load or the part written so far
AudioOf(file) ==
    IF file = NoFile
    THEN {AudioFeature(FALSE, FALSE, FALSE, Zero, Zero, Zero, Zero, Zero)}
    ELSE {AudioFeature(TRUE, TRUE, FALSE, vs, vs, vs, RatSub(One, vs), d) :
            vs \in {IF file.content = "clipA" THEN One ELSE Rat(1, 2)},
            d \in {IF file.complete THEN Rat(30, 1) ELSE Rat(5, 1)}}
         \cup (IF file.complete THEN {}
               ELSE {AudioFeature(TRUE, FALSE, FALSE, Zero, Zero, Zero, Zero, Zero)})

\* lines 74-83: the request arrives with its file name and content
Receive(r, filename, content) ==
    /\ requests[r].pc = "idle"
    /\ requests' = [requests EXCEPT ![r].pc = "received",
                                    ![r].filename = filename,
                                    ![r].content = content]
    /\ UNCHANGED <<files, history>>
    /\ UNCHANGED engine

\* line 85: uploaded_file.save(primary_upload_path)
Save(r) ==
    /\ requests[r].pc = "received"
    /\ files' = [files EXCEPT ![UploadPath(requests[r].filename)] =
                                  File(requests[r].content, TRUE)]
    /\ requests' = [requests EXCEPT ![r].pc = "saved"]
    /\ UNCHANGED history
    /\ UNCHANGED engine

\* line 94: pipeline.analyze_video(primary_upload_path)
RunVideo(r) ==
    /\ requests[r].pc = "saved"
    /\ \E rec \in analyze_video(VideoOf(files[UploadPath(requests[r].filename)])).rets :
           requests' = [requests EXCEPT ![r].pc = "video_done",
                                        ![r].video_results = rec]
    /\ UNCHANGED <<files, history>>
    /\ UNCHANGED engine

\* line 95, extract_audio_from_video: ffmpeg opens the video and starts
\* writing <base>_audio.wav over whatever is there (-y); without a video
\* file both ffmpeg and moviepy fail and analyze_audio returns its record
BeginExtract(r) ==
    /\ requests[r].pc = "video_done"
    /\ IF files[UploadPath(requests[r].filename)] = NoFile
       THEN /\ \E rec \in analyze_audio(CHOOSE f \in AudioOf(NoFile) : TRUE, TRUE).rets :
                   requests' = [requests EXCEPT ![r].pc = "audio_done",
                                                ![r].audio_results = rec]
            /\ UNCHANGED files
       ELSE /\ requests' = [requests EXCEPT
                   ![r].pc = "extracting",
                   ![r].source = files[UploadPath(requests[r].filename)].content]
            /\ files' = [files EXCEPT ![AudioPath(requests[r].filename)] =
                                          File(requests[r].source', FALSE)]
    /\ UNCHANGED history
    /\ UNCHANGED engine

\* ffmpeg has written the whole track
EndExtract(r) ==
    /\ requests[r].pc = "extracting"
    /\ files' = [files EXCEPT ![AudioPath(requests[r].filename)] =
                                  File(requests[r].source, TRUE)]
    /\ requests' = [requests EXCEPT ![r].pc = "extracted"]
    /\ UNCHANGED history
    /\ UNCHANGED engine

\* the rest of analyze_audio: load_audio(audio_path) and the features
LoadAudio(r) ==
    /\ requests[r].pc = "extracted"
    /\ \E f \in AudioOf(files[AudioPath(requests[r].filename)]) :
           \E rec \in analyze_audio(f, TRUE).rets :
               requests' = [requests EXCEPT ![r].pc = "audio_done",
                                            ![r].audio_results = rec]
    /\ UNCHANGED <<files, history>>
    /\ UNCHANGED engine

\* line 114: fusion_engine.fuse(video_results, audio_results, None)
FuseResults(r) ==
    /\ requests[r].pc = "audio_done"
    /\ \E rec \in fuse(requests[r].video_results, requests[r].audio_results,
                       NoneArg).results :
           requests' = [requests EXCEPT ![r].pc = "fused",
                                        ![r].fusion_results = rec]
    /\ UNCHANGED <<files, history>>
    /\ UNCHANGED engine

\* line 134: history = read_history()
ReadHistory(r) ==
    /\ requests[r].pc = "fused"
    /\ requests' = [requests EXCEPT ![r].pc = "history_read",
                                    ![r].history = history]
    /\ UNCHANGED <<files, history>>
    /\ UNCHANGED engine

\* lines 135-136: history.insert(0, final_report); write_history(history)
WriteHistory(r) ==
    /\ requests[r].pc = "history_read"
    /\ history' = <<r>> \o requests[r].history
    /\ requests' = [requests EXCEPT ![r].pc = "reported"]
    /\ UNCHANGED files
    /\ UNCHANGED engine

\* lines 145-149, the finally block: os.remove(primary_upload_path)
Cleanup(r) ==
    /\ requests[r].pc = "reported"
    /\ files' = [files EXCEPT ![UploadPath(requests[r].filename)] = NoFile]
    /\ requests' = [requests EXCEPT ![r].pc = "finished"]
    /\ UNCHANGED history
    /\ UNCHANGED engine

ServerNext ==
    \E r \in Requests :
        \/ \E filename \in UploadNames, content \in Contents :
               Receive(r, filename, content)
        \/ Save(r)
        \/ RunVideo(r)
        \/ BeginExtract(r)
        \/ EndExtract(r)
        \/ LoadAudio(r)
        \/ FuseResults(r)
        \/ ReadHistory(r)
        \/ WriteHistory(r)
        \/ Cleanup(r)

ServerSpec == Init /\ [][ServerNext]_vars

(***************************************************************************)
(* The helper functions of the analyzers, each called on its own           *)
(***************************************************************************)
\* the default max_frames of extract_video_frames, as analyze_video passes it
max_frames == 50

\* how many readable frames a video holds: none, one, either side of
\* max_frames, and lengths of two, three, fifty and a hundred times that
FrameCounts == {0, 1, 25, 49, 50, 51, 99, 100, 150, 2500, 5000}

\* lines 18-28: cv2.VideoCapture(video_path) opens a video of total frames;
\* step = max(1, total_frames // max_frames)
OpenVideo(total) ==
    /\ helper = NoHelper
    /\ helper' = [function |-> "extract_video_frames", pc |-> "reading",
                  total_frames |-> total,
                  step |-> IF total \div max_frames > 1
                           THEN total \div max_frames ELSE 1,
                  frame_count |-> 0,
                  frames |-> <<>>]
    /\ UNCHANGED <<default_weights, thresholds, video_result, audio_result,
                   text_result, pc, outcome, result, locals, analysis, calls>>
    /\ UNCHANGED server

\* lines 30-41, one turn of the loop: cap.read() gives the next frame, which
\* is kept (by its index in the video) when frame_count % step == 0
ReadFrame ==
    /\ helper.function = "extract_video_frames"
    /\ helper.pc = "reading"
    /\ helper.frame_count < max_frames
    /\ helper.frame_count < helper.total_frames
    /\ helper' = [helper EXCEPT
                    !.frames = IF helper.frame_count % helper.step = 0
                               THEN Append(@, helper.frame_count) ELSE @,
                    !.frame_count = @ + 1]
    /\ UNCHANGED <<default_weights, thresholds, video_result, audio_result,
                   text_result, pc, outcome, result, locals, analysis, calls>>
    /\ UNCHANGED server

\* lines 30-35, 43-49: the loop ends after max_frames reads or when cap.read()
\* has no frame left, and the frames kept are returned
StopReading ==
    /\ helper.function = "extract_video_frames"
    /\ helper.pc = "reading"
    /\ \/ helper.frame_count >= max_frames
       \/ helper.frame_count >= helper.total_frames
    /\ helper' = [helper EXCEPT !.pc = "returned"]
    /\ UNCHANGED <<default_weights, thresholds, video_result, audio_result,
                   text_result, pc, outcome, result, locals, analysis, calls>>
    /\ UNCHANGED server

\* the caller has the value of the helper
HelperDone ==
    /\ helper.function # "none"
    /\ helper.pc = "returned"
    /\ helper' = NoHelper
    /\ UNCHANGED <<default_weights, thresholds, video_result, audio_result,
                   text_result, pc, outcome, result, locals, analysis, calls>>
    /\ UNCHANGED server

FramesNext ==
    \/ \E total \in FrameCounts : OpenVideo(total)
    \/ ReadFrame
    \/ StopReading
    \/ HelperDone

FramesSpec == Init /\ [][FramesNext]_vars

\* ---- the text helpers; a text is a sequence of one-character strings ----
\* the characters of the class [.!?] of both re.split calls
IsTerminator(c) == c \in {".", "!", "?"}

\* the characters str.strip() and str.split() treat as white space
IsSpace(c) == c \in {" ", "\n"}

\* the least member of a non-empty set of integers
Least(S) == CHOOSE i \in S : \A k \in S : i <= k

\* str.strip(): the text without its leading and trailing white space
strip(text) ==
    LET solid == {i \in 1..Len(text) : ~IsSpace(text[i])}
    IN IF solid = {} THEN <<>>
       ELSE SubSeq(text, Least(solid),
                   CHOOSE last \in solid : \A other \in solid : last >= other)

\* re.split(r'[.!?]+', text): the fragments between runs of terminators, the
\* empty ones at either end included
RECURSIVE re_split(_)
re_split(text) ==
    LET marks == {i \in 1..Len(text) : IsTerminator(text[i])}
    IN IF marks = {} THEN <<text>>
       ELSE LET first == Least(marks)
                after == {i \in first..Len(text) : ~IsTerminator(text[i])}
                rest == IF after = {} THEN <<>>
                        ELSE SubSeq(text, Least(after), Len(text))
            IN <<SubSeq(text, 1, first - 1)>> \o re_split(rest)

\* len(sentence.split()): the number of maximal runs of non-space characters
WordCount(sentence) ==
    Cardinality({i \in 1..Len(sentence) :
                    /\ ~IsSpace(sentence[i])
                    /\ (i = 1 \/ IsSpace(sentence[i - 1]))})

\* the length test of extract_claims (line 101) and of check_sentence_quality
\* (line 110) alike
LongEnoughFrom10(sentence) == Len(sentence) >= 10
LongEnough(sentence) == Len(sentence) > 10

\* lines 88-93 of extract_claims: text.strip(), then the split; the input is
\* a str, on which nothing in the try block raises
CallExtractClaims(text) ==
    /\ helper = NoHelper
    /\ helper' = [function |-> "extract_claims", pc |-> "filtering",
                  text |-> text,
                  sentences |-> re_split(strip(text)),
                  claims |-> <<>>]
    /\ UNCHANGED <<default_weights, thresholds, video_result, audio_result,
                   text_result, pc, outcome, result, locals, analysis, calls>>
    /\ UNCHANGED server

\* lines 97-102, one turn of the loop: the next sentence is stripped and
\* appended to claims when it is long enough
FilterSentence ==
    /\ helper.function = "extract_claims"
    /\ helper.pc = "filtering"
    /\ helper.sentences # <<>>
    /\ LET sentence == strip(Head(helper.sentences))
       IN helper' = [helper EXCEPT
                       !.sentences = Tail(@),
                       !.claims = IF LongEnough(sentence)
                                  THEN Append(@, sentence) ELSE @]
    /\ UNCHANGED <<default_weights, thresholds, video_result, audio_result,
                   text_result, pc, outcome, result, locals, analysis, calls>>
    /\ UNCHANGED server

\* lines 104-105: return claims
ReturnClaims ==
    /\ helper.function = "extract_claims"
    /\ helper.pc = "filtering"
    /\ helper.sentences = <<>>
    /\ helper' = [helper EXCEPT !.pc = "returned"]
    /\ UNCHANGED <<default_weights, thresholds, video_result, audio_result,
                   text_result, pc, outcome, result, locals, analysis, calls>>
    /\ UNCHANGED server

\* lines 117-124: what one sentence adds to quality_score, in halves
HalvesAnyLength(sentence) ==
    IF WordCount(sentence) >= 5 THEN 2
    ELSE IF WordCount(sentence) > 3 THEN 1
    ELSE 0
Halves(sentence) ==
    IF 5 <= WordCount(sentence) /\ WordCount(sentence) <= 30 THEN 2
    ELSE IF WordCount(sentence) > 3 THEN 1
    ELSE 0

\* quality_score after the loop of lines 117-124, in halves
RECURSIVE QualityHalves(_)
QualityHalves(sentences) ==
    IF sentences = <<>> THEN 0
    ELSE Halves(Head(sentences)) + QualityHalves(Tail(sentences))

\* TextFactChecker.check_sentence_quality; line 110 keeps the stripped
\* fragments that are long enough
check_sentence_quality(text) ==
    LET stripped == [i \in 1..Len(re_split(text)) |-> strip(re_split(text)[i])]
        sentences == SelectSeq(stripped, LongEnough)
    IN IF Len(sentences) = 0 THEN Zero
       ELSE RatMin(One, Rat(QualityHalves(sentences), 2 * Len(sentences)))

\* a call of check_sentence_quality, which has no state of its own
CallSentenceQuality(text) ==
    /\ helper = NoHelper
    /\ helper' = [function |-> "check_sentence_quality", pc |-> "returned",
                  text |-> text,
                  quality |-> check_sentence_quality(text)]
    /\ UNCHANGED <<default_weights, thresholds, video_result, audio_result,
                   text_result, pc, outcome, result, locals, analysis, calls>>
    /\ UNCHANGED server

\* n words of w letters each, single spaces between them
RECURSIVE Words(_, _)
Words(n, w) ==
    IF n = 0 THEN <<>>
    ELSE IF n = 1 THEN [i \in 1..w |-> "a"]
    ELSE [i \in 1..w |-> "a"] \o <<" ">> \o Words(n - 1, w)

\* the fragments texts are made of: nothing, white space, single words of 9,
\* 10 and 11 letters, a word of 10 letters inside white space, and sentences
\* of 3, 4, 5, 30 and 31 words, one of them too short to count
Fragments ==
    { <<>>, <<" ", "\n">>,
      Words(1, 9), Words(1, 10), Words(1, 11),
      <<" ">> \o Words(1, 10) \o <<"\n">>,
      Words(3, 4), Words(4, 3), Words(5, 2), Words(5, 1),
      Words(30, 1), Words(31, 1) }

\* the texts given to the helpers: one or two fragments, each followed by
\* nothing, by one terminator or by a run of them
Texts ==
    LET pieces == {f \o e : f \in Fragments, e \in {<<>>, <<".">>, <<"?", "!">>}}
    IN pieces \cup {p \o q : p \in pieces, q \in pieces}

TextNext ==
    \/ \E text \in Texts : CallExtractClaims(text)
    \/ FilterSentence
    \/ ReturnClaims
    \/ \E text \in Texts : CallSentenceQuality(text)
    \/ HelperDone

TextSpec == Init /\ [][TextNext]_vars

\* ---- detect_artifacts on the statistics of its frames ----
\* the mean and the variance of the frame qualities on both sides of 0.3,
\* 0.95 and 0.05 (the variance is at most mean * (1 - mean)), and at 0.3 and
\* 0.05 themselves
ArtifactQualityStats ==
    QualityStats \cup
    {<<Rat(29, 100), Zero>>, <<Rat(3, 10), Zero>>, <<Rat(3, 10), Rat(5, 100)>>,
     <<Rat(3, 10), Rat(6, 100)>>, <<Rat(1, 4), Rat(5, 100)>>,
     <<Rat(9, 10), Zero>>, <<Rat(9, 10), Rat(6, 100)>>,
     <<Rat(96, 100), Zero>>}

\* the mean edge density on both sides of 0.05 and 0.3, and at both
ArtifactEdges ==
    {Zero, Rat(4, 100), Rat(5, 100), Rat(1, 10), Rat(3, 10), Rat(31, 100),
     Rat(1, 2), One}

\* lines 130-154: detect_artifacts on frames with these statistics
CallDetectArtifacts(avg_quality, quality_variance, avg_edges) ==
    /\ helper = NoHelper
    /\ helper' = [function |-> "detect_artifacts", pc |-> "returned",
                  avg_quality |-> avg_quality,
                  quality_variance |-> quality_variance,
                  avg_edges |-> avg_edges,
                  artifact_score |->
                      detect_artifacts(quality_variance, avg_quality, avg_edges)]
    /\ UNCHANGED <<default_weights, thresholds, video_result, audio_result,
                   text_result, pc, outcome, result, locals, analysis, calls>>
    /\ UNCHANGED server

ArtifactNext ==
    \/ \E qs \in ArtifactQualityStats, e \in ArtifactEdges :
          CallDetectArtifacts(qs[1], qs[2], e)
    \/ HelperDone

ArtifactSpec == Init /\ [][ArtifactNext]_vars

(***************************************************************************)
(* Properties                                                              *)
(***************************************************************************)
Done == pc = "done"

\* fuse returned a record with success = true
Succeeded == pc = "done" /\ outcome = "returned" /\ result.success

ArgOf(m) ==
    IF m = "video" THEN video_result ELSE IF m = "audio" THEN audio_result ELSE text_result

InSeq(x, seq) == \E i \in 1..Len(seq) : seq[i] = x

\* the record of m was supplied and carries a score > 0
SuppliedPositive(m) ==
    /\ ArgOf(m).kind = "dict"
    /\ ScoreKey(m) \in DOMAIN ArgOf(m).d
    /\ ArgOf(m).d[ScoreKey(m)].t = "num"
    /\ ArgOf(m).d[ScoreKey(m)].q.num > 0

\* the record of m is absent (None)
Absent(m) == ArgOf(m).kind = "none"

\* the record of m says success = false
SaysFailed(m) ==
    /\ ArgOf(m).kind = "dict"
    /\ "success" \in DOMAIN ArgOf(m).d
    /\ ArgOf(m).d["success"] = Bool(FALSE)

\* the score and confidence the record of m carries (0 when there is none)
ScoreOf(m) ==
    IF ArgOf(m).kind = "dict" /\ ScoreKey(m) \in DOMAIN ArgOf(m).d
    THEN ArgOf(m).d[ScoreKey(m)].q ELSE Zero

ConfOf(m) ==
    IF ArgOf(m).kind = "dict" /\ "confidence" \in DOMAIN ArgOf(m).d
    THEN ArgOf(m).d["confidence"].q ELSE Zero

ActiveSet == {m \in ModalitySet : InSeq(m, result.active_modalities)}

\* the call with the record of m taken away
WithoutModality(m) ==
    fuse(IF m = "video" THEN NoneArg ELSE video_result,
         IF m = "audio" THEN NoneArg ELSE audio_result,
         IF m = "text" THEN NoneArg ELSE text_result)

\* every argument of the call is None or the record of a successful analysis
WellFormedCall == \A m \in ModalitySet : Absent(m) \/ ArgOf(m) \in SuccessRecords(m)

\* C1 (as claimed): in every successful result the verdict is determined by
\* the reported fusion_score: AUTHENTIC iff fusion_score >= 70, SUSPICIOUS
\* iff 40 <= fusion_score < 70, LIKELY FAKE iff fusion_score < 40.  Stated
\* on the calls with well-formed records whose reported score does not
\* depend on how a tie is rounded and whose exact score is not a threshold.
C1_VerdictFromReportedScore ==
    (/\ Succeeded
     /\ WellFormedCall
     /\ ~IsTie(locals.final_score, 2)
     /\ locals.final_score \notin {Rat(70, 1), Rat(40, 1)}) =>
        /\ result.verdict = "AUTHENTIC" <=> RatGE(result.fusion_score, Rat(70, 1))
        /\ result.verdict = "SUSPICIOUS" <=>
               (RatGE(result.fusion_score, Rat(40, 1)) /\ RatLT(result.fusion_score, Rat(70, 1)))
        /\ result.verdict = "LIKELY FAKE" <=> RatLT(result.fusion_score, Rat(40, 1))

\* C2 (as claimed): in every successful result with non-empty
\* active_modalities the reported weights of the active modalities sum to
\* 1.0 within 1e-6.  Stated on the calls with well-formed records whose
\* reported weights do not depend on how a tie is rounded.
C2_ReportedWeightsSumToOne ==
    (/\ Succeeded
     /\ WellFormedCall
     /\ result.active_modalities # <<>>
     /\ \A k \in DOMAIN locals.weights : ~IsTie(locals.weights[k], 3)) =>
        LET total == SumOver(result.adaptive_weights, ActiveSet)
            diff == RatSub(total, One)
        IN  /\ RatLE(diff, Rat(1, 1000000))
            /\ RatGE(diff, Rat(-1, 1000000))

\* C3 (as claimed): a modality is in active_modalities if and only if its
\* result was supplied and its score is strictly greater than 0.
C3_ActiveIffSuppliedPositive ==
    Succeeded => \A m \in ModalitySet : m \in ActiveSet <=> SuppliedPositive(m)

\* C3 (amended): if some modality was supplied with a score > 0, a modality
\* is active if and only if its result was supplied and its score is > 0,
\* in the order video, audio, text; if none was, active_modalities is
\* exactly [video].
C3_ActiveIffSuppliedPositiveOrFallback ==
    Succeeded =>
        IF \E k \in ModalitySet : SuppliedPositive(k)
        THEN result.active_modalities = SelectSeq(Modalities, SuppliedPositive)
        ELSE result.active_modalities = <<"video">>

C3_Witness ==
    /\ Succeeded
    /\ result.active_modalities = <<"video", "text">>
    /\ audio_result.kind = "dict"
    /\ ScoreOf("audio") = Zero

\* C4: fuse never raises: every call returns a record, and when an
\* exception occurs inside it the record is {success: false, fusion_score: 0,
\* verdict: ERROR, error: message}.
C4_FuseIsTotal ==
    Done =>
        /\ outcome = "returned"
        /\ "success" \in DOMAIN result
        /\ locals.exception # "none" =>
              /\ result.success = FALSE
              /\ result.fusion_score = Zero
              /\ result.verdict = "ERROR"
              /\ result.error = locals.exception

C4_Witness ==
    /\ Done
    /\ locals.exception = "AttributeError"
    /\ audio_result.kind = "obj"
    /\ video_result.kind = "dict"
    /\ result.verdict = "ERROR"

\* the call of this state and the call without the record of m give the
\* same weighted score / the same overall confidence (w is the latter call)
SameScoreAs(w) == locals.final_score = w.locals.final_score

SameConfidenceAs(w) == locals.overall_confidence = w.locals.overall_confidence

\* C5 (as claimed): a modality whose result is absent or says success=false,
\* whatever score and confidence it carries, is not in active_modalities,
\* has no weight and contributes nothing to fusion_score or to the overall
\* confidence.
C5_AbsentOrFailedExcluded ==
    Succeeded =>
        \A m \in ModalitySet :
            (Absent(m) \/ SaysFailed(m)) =>
                /\ m \notin ActiveSet
                /\ m \notin DOMAIN result.adaptive_weights
                /\ \E w \in {WithoutModality(m)} : SameScoreAs(w) /\ SameConfidenceAs(w)

\* C5 (amended): a modality whose result is absent or carries score 0 (as
\* every failed analysis does) contributes nothing to fusion_score and,
\* whenever some modality has a score > 0, is not in active_modalities, has
\* no weight and contributes nothing to the overall confidence; the success
\* flag is not read, so a record with a score > 0 is active even when it
\* says success=false.
C5_AbsentOrZeroExcluded ==
    Succeeded =>
        \A m \in ModalitySet :
            IF SuppliedPositive(m)
            THEN m \in ActiveSet
            ELSE \E w \in {WithoutModality(m)} :
                    /\ SameScoreAs(w)
                    /\ (\E k \in ModalitySet : SuppliedPositive(k)) =>
                          /\ m \notin ActiveSet
                          /\ m \notin DOMAIN locals.weights
                          /\ m \notin DOMAIN result.adaptive_weights
                          /\ SameConfidenceAs(w)

C5_Witness ==
    /\ Succeeded
    /\ SaysFailed("text")
    /\ ScoreOf("text") = Zero
    /\ ConfOf("text") = Zero
    /\ Absent("audio")
    /\ result.active_modalities = <<"video">>
    /\ SuppliedPositive("video")

\* C6: fuse(None, None, None) returns success with weights exactly
\* {video: 1.0}, active_modalities exactly [video], fusion_score 0 and
\* verdict LIKELY FAKE.
C6_AllNone ==
    (Done /\ Absent("video") /\ Absent("audio") /\ Absent("text")) =>
        /\ outcome = "returned"
        /\ result.success
        /\ result.adaptive_weights = ("video" :> One)
        /\ result.active_modalities = <<"video">>
        /\ result.fusion_score = Zero
        /\ result.verdict = "LIKELY FAKE"

C6_Witness ==
    /\ Done
    /\ Absent("video") /\ Absent("audio") /\ Absent("text")
    /\ outcome = "returned"

\* the base weights and the tier factor, as the claim states them
ClaimBase(m) ==
    CASE m = "video" -> Rat(40, 100)
      [] m = "audio" -> Rat(40, 100)
      [] m = "text" -> Rat(20, 100)

ClaimTier(c) ==
    CASE RatGE(c, Rat(80, 1)) -> Rat(13, 10)
      [] RatGE(c, Rat(60, 1)) /\ RatLT(c, Rat(80, 1)) -> Rat(11, 10)
      [] RatGE(c, Rat(50, 1)) /\ RatLT(c, Rat(60, 1)) -> Rat(10, 10)
      [] RatGE(c, Rat(40, 1)) /\ RatLT(c, Rat(50, 1)) -> Rat(8, 10)
      [] RatLT(c, Rat(40, 1)) -> Rat(6, 10)

ClaimUnnormalized(S) == [k \in S |-> RatMul(ClaimBase(k), ClaimTier(ConfOf(k)))]

\* C7: the resolved weight of each active modality m is
\* base[m]*tier(conf[m]) / sum of base[k]*tier(conf[k]) over the active k.
C7_ResolvedWeights ==
    Succeeded =>
        /\ DOMAIN locals.weights = ActiveSet
        /\ \A m \in ActiveSet :
              locals.weights[m] =
                  RatDiv(ClaimUnnormalized(ActiveSet)[m],
                         SumOver(ClaimUnnormalized(ActiveSet), ActiveSet))

C7_Witness ==
    /\ Succeeded
    /\ result.active_modalities = Modalities
    /\ ConfOf("video") = Rat(80, 1)
    /\ ConfOf("audio") = Rat(50, 1)
    /\ ConfOf("text") = Zero
    /\ locals.weights["video"] = Rat(52, 104)

\* C8: the fusion score is exactly the sum over the active modalities of
\* weight[m]*score[m] (the reported one is its rounding to two decimals), no
\* penalty is subtracted and the reported consistency_penalty is 0, however
\* far apart the active scores are.
C8_ScoreIsWeightedSum ==
    Succeeded =>
        LET sum == SumOver([m \in ActiveSet |-> RatMul(locals.weights[m], ScoreOf(m))],
                           ActiveSet)
        IN  /\ locals.final_score = sum
            /\ RatLE(RatSub(result.fusion_score, sum), Rat(5, 1000))
            /\ RatLE(RatSub(sum, result.fusion_score), Rat(5, 1000))
            /\ locals.consistency_penalty = Zero
            /\ result.consistency_penalty = Zero

C8_Witness ==
    /\ Succeeded
    /\ result.active_modalities = <<"video", "audio">>
    /\ ScoreOf("video") = Rat(100, 1)
    /\ ScoreOf("audio") = Rat(3999, 100)
    /\ result.consistency_penalty = Zero

\* C9: the overall confidence is the sum over the active modalities of
\* weight[m]*confidence[m], with the weights of the fusion score (the
\* reported one is its rounding to two decimals).
C9_ConfidenceIsWeightedSum ==
    Succeeded =>
        LET sum == SumOver([m \in ActiveSet |-> RatMul(locals.weights[m], ConfOf(m))],
                           ActiveSet)
        IN  /\ locals.overall_confidence = sum
            /\ RatLE(RatSub(result.confidence, sum), Rat(5, 1000))
            /\ RatLE(RatSub(sum, result.confidence), Rat(5, 1000))

C9_Witness ==
    /\ Succeeded
    /\ result.active_modalities = <<"audio", "text">>
    /\ ConfOf("audio") = Rat(80, 1)
    /\ ConfOf("text") = Rat(40, 1)
    /\ ConfOf("video") = Rat(60, 1)

\* the call of TEST 1
ScenarioA ==
    /\ pc = "done"
    /\ video_result = Record("video", TRUE, Num(Rat(8377, 100)), Num(Rat(90, 1)))
    /\ audio_result = Record("audio", TRUE, Num(Rat(58, 1)), Num(Rat(45, 1)))
    /\ text_result = Record("text", TRUE, Num(Rat(5983, 100)), Num(Rat(40, 1)))

ScenarioAWeights ==
    /\ locals.weights["video"] = RatDiv(Rat(40 * 13, 1000), Rat(40 * 13 + 40 * 8 + 20 * 8, 1000))
    /\ locals.weights["audio"] = RatDiv(Rat(40 * 8, 1000), Rat(40 * 13 + 40 * 8 + 20 * 8, 1000))
    /\ locals.weights["text"] = RatDiv(Rat(20 * 8, 1000), Rat(40 * 13 + 40 * 8 + 20 * 8, 1000))

\* C10 (as claimed): scenario A yields active_modalities [video, audio,
\* text], the video weight multiplied by 1.3 and the audio and text weights
\* by 0.8 before renormalization, a fusion_score between 73 and 77, and
\* verdict AUTHENTIC.
C10_ScenarioAMidSeventies ==
    ScenarioA =>
        /\ outcome = "returned" /\ result.success
        /\ result.active_modalities = <<"video", "audio", "text">>
        /\ ScenarioAWeights
        /\ RatGE(result.fusion_score, Rat(73, 1))
        /\ RatLE(result.fusion_score, Rat(77, 1))
        /\ result.verdict = "AUTHENTIC"

\* C10 (amended): scenario A yields active_modalities [video, audio, text],
\* the video weight multiplied by 1.3 and the audio and text weights by 0.8
\* before renormalization (0.52, 0.32, 0.16), a fusion_score of 71.69, and
\* verdict AUTHENTIC.
C10_ScenarioA ==
    ScenarioA =>
        /\ outcome = "returned" /\ result.success
        /\ result.active_modalities = <<"video", "audio", "text">>
        /\ ScenarioAWeights
        /\ result.adaptive_weights = [video |-> Rat(52, 100), audio |-> Rat(32, 100),
                                      text |-> Rat(16, 100)]
        /\ result.fusion_score = Rat(7169, 100)
        /\ result.verdict = "AUTHENTIC"

C10_Witness == ScenarioA /\ outcome = "returned" /\ result.verdict = "AUTHENTIC"

\* only the video record of scenario B is present
ScenarioB ==
    /\ pc = "done"
    /\ video_result = ScenarioBRecord
    /\ audio_result = NoneArg
    /\ text_result = NoneArg

\* C11: when exactly one modality is active its weight is exactly 1.0 (in
\* the engine and in the record) and fusion_score equals that modality's
\* score, whatever the tier of its confidence; scenario B gives weights
\* {video: 1.0}, fusion_score 85 and verdict AUTHENTIC.
C11_SingleModality ==
    /\ (Succeeded /\ Len(result.active_modalities) = 1) =>
           LET m == result.active_modalities[1]
           IN  /\ locals.weights = (m :> One)
               /\ result.adaptive_weights = (m :> One)
               /\ locals.final_score = ScoreOf(m)
               /\ result.fusion_score = ScoreOf(m)
    /\ ScenarioB =>
           /\ Succeeded
           /\ result.active_modalities = <<"video">>
           /\ result.adaptive_weights = ("video" :> One)
           /\ result.fusion_score = Rat(85, 1)
           /\ result.verdict = "AUTHENTIC"

C11_Witness ==
    /\ ScenarioB
    /\ Succeeded
    /\ result.adaptive_weights = ("video" :> One)
    /\ result.fusion_score = Rat(85, 1)

\* the text analysis of the request found no claim in its (non-None) text
ZeroClaims ==
    /\ analysis.analyzer = "text"
    /\ ~analysis.features.text_is_none
    /\ analysis.features.claims = 0

\* the text record says success=false, score 0, confidence 0 and carries the
\* message of the zero-claim exit
IsNoClaimsRecord ==
    /\ SaysFailed("text")
    /\ DOMAIN text_result.d = {"success", "error", "text_score", "confidence"}
    /\ text_result.d["text_score"] = Num(Zero)
    /\ text_result.d["confidence"] = Num(Zero)
    /\ text_result.d["error"] = Msg("No claims could be extracted from text")

\* C12: scenario C.  Analysing a text from which zero claims are extracted
\* returns (no exception) the record success=false, score 0, confidence 0
\* with an error message, and a fuse call that receives that record, with
\* whatever video and audio records, returns a result whose
\* active_modalities does not contain text.
C12_ScenarioC ==
    /\ ZeroClaims => pc = "text_done" /\ IsNoClaimsRecord
    /\ (Done /\ IsNoClaimsRecord) =>
          /\ outcome = "returned"
          /\ result.success
          /\ ~InSeq("text", result.active_modalities)

C12_Witness ==
    /\ Succeeded
    /\ IsNoClaimsRecord
    /\ SuppliedPositive("video")
    /\ SuppliedPositive("audio")
    /\ result.active_modalities = <<"video", "audio">>

\* a step of the analyzer call just made has failed: no frame, no audio
\* track or an unreadable file, no claim, a text that is None, or an
\* exception in a feature computation
FailedStep ==
    IF analysis.analyzer = "video"
    THEN analysis.features.frames = 0 \/ analysis.features.raises
    ELSE IF analysis.analyzer = "audio"
    THEN \/ video_result # NoneArg /\ ~analysis.features.extracted
         \/ ~analysis.features.loaded
         \/ analysis.features.raises
    ELSE \/ analysis.features.text_is_none
         \/ analysis.features.claims = 0
         \/ analysis.features.raises

\* the record of m says success=false, score 0, confidence 0 and carries an
\* error message
IsFailureRecord(m) ==
    /\ SaysFailed(m)
    /\ ScoreKey(m) \in DOMAIN ArgOf(m).d
    /\ ArgOf(m).d[ScoreKey(m)] = Num(Zero)
    /\ "confidence" \in DOMAIN ArgOf(m).d
    /\ ArgOf(m).d["confidence"] = Num(Zero)
    /\ "error" \in DOMAIN ArgOf(m).d
    /\ ArgOf(m).d["error"].t = "str"

\* C13: every analyzer catches its internal failures locally.  Whenever a
\* step inside analyze_video, analyze_audio or analyze_text fails, the call
\* raises nothing and returns a record with success=false, score 0,
\* confidence 0 and an error message.
C13_FailuresCaughtLocally ==
    (analysis.analyzer # "none" /\ FailedStep) =>
        /\ analysis.raised = "none"
        /\ IsFailureRecord(analysis.analyzer)

\* a number of [0, 100]
InPercentRange(v) ==
    /\ v.t = "num"
    /\ RatGE(v.q, Zero)
    /\ RatLE(v.q, Rat(100, 1))

\* C14: for all valid inputs the score and the confidence of the record an
\* analyzer returns lie in [0, 100], over the full range of the
\* intermediate feature values (a negative mean cosine similarity, the
\* maximal and minimal values of every sub-score).
C14_AnalyzerRanges ==
    (analysis.analyzer # "none" /\ analysis.raised = "none") =>
        /\ InPercentRange(ArgOf(analysis.analyzer).d[ScoreKey(analysis.analyzer)])
        /\ InPercentRange(ArgOf(analysis.analyzer).d["confidence"])

\* the record of m is absent, or a dict whose score and confidence (where it
\* has them) are numbers of [0, 100]
SuppliedInRange(m) ==
    \/ Absent(m)
    \/ /\ ArgOf(m).kind = "dict"
       /\ \A k \in {ScoreKey(m), "confidence"} \cap DOMAIN ArgOf(m).d :
              InPercentRange(ArgOf(m).d[k])

\* C15: whenever every supplied modality score and confidence lies in
\* [0, 100], fuse returns a result whose fusion_score and confidence lie in
\* [0, 100].
C15_FusedRanges ==
    (Done /\ \A m \in ModalitySet : SuppliedInRange(m)) =>
        /\ outcome = "returned"
        /\ result.success
        /\ InPercentRange(Num(result.fusion_score))
        /\ InPercentRange(Num(result.confidence))

\* three modalities at the top of the range, each weight scaled up by its
\* confidence multiplier before the normalization
C15_Witness ==
    /\ Succeeded
    /\ \A m \in ModalitySet : ScoreOf(m) = Rat(100, 1) /\ ConfOf(m) = Rat(80, 1)
    /\ result.fusion_score = Rat(100, 1)
    /\ result.confidence = Rat(80, 1)

\* the text analyzer has returned the record of a successful analysis
TextAnalyzed ==
    /\ analysis.analyzer = "text"
    /\ analysis.raised = "none"
    /\ text_result.d["success"] = Bool(TRUE)

\* C16: the text analyzer's confidence is min(100, 100*claim_count/5), plus
\* 15 if factual_density > 0.6, plus 10 if sentence_quality > 0.8, capped at
\* 95: for every claim count >= 1 and every combination of the two boost
\* conditions the returned confidence never exceeds 95.
C16_TextConfidenceAtMost95 ==
    TextAnalyzed => RatLE(text_result.d["confidence"].q, Rat(95, 1))

\* the base weights and the verdict thresholds of a fresh engine
FreshWeights == [video |-> Rat(40, 100), audio |-> Rat(40, 100), text |-> Rat(20, 100)]
FreshThresholds == [authentic |-> 70, suspicious |-> 40, likely_fake |-> 0]

\* C17: fuse is deterministic and history-independent.  On one engine
\* instance, after any sequence of earlier calls with arbitrary arguments,
\* the base weights and the verdict thresholds are those of a fresh engine,
\* so that the record fuse(v, a, t) returns is the one the fresh engine
\* computes from v, a and t alone, and the call leaves the records passed
\* in as they were.
C17_HistoryIndependent ==
    /\ [](/\ default_weights = FreshWeights
          /\ thresholds = FreshThresholds
          /\ Done => \E r \in {fuse(video_result, audio_result, text_result)} :
                         /\ outcome = r.outcome
                         /\ result \in r.results)
    /\ [][pc = "called" =>
             <<video_result, audio_result, text_result>>'
                 = <<video_result, audio_result, text_result>>]_vars

\* the third call on the engine resolves the weights of three modalities
C17_Witness ==
    /\ calls = MaxCalls
    /\ Succeeded
    /\ ActiveSet = ModalitySet
    /\ \A m \in ModalitySet : ArgOf(m) = Record(m, TRUE, Num(TestScore(m)), Num(TestConf(m)))

\* the records a request returns when it runs alone on a video holding c
AloneResults(c) ==
    UNION {fuse(v, a, NoneArg).results :
             v \in analyze_video(VideoOf(File(c, TRUE))).rets,
             a \in UNION {analyze_audio(f, TRUE).rets : f \in AudioOf(File(c, TRUE))}}

\* the request has its fused record
HasResult(r) == requests[r].pc \in {"fused", "history_read", "reported", "finished"}

\* C18: no shared mutable state is written during analysis, so concurrent
\* requests cannot interfere.  Each of two requests in flight (on the same
\* video path, or with uploads of the same file name, as on different ones)
\* returns the result it returns when run alone, under every interleaving
\* of their steps.
C18_NoInterference ==
    \A r \in Requests :
        HasResult(r) => requests[r].fusion_results \in AloneResults(requests[r].content)

\* the bracket of a score: below 40, from 40 to 70, above 70
Bracket(s) ==
    IF RatLT(s, Rat(40, 1)) THEN "manipulation"
    ELSE IF RatLE(s, Rat(70, 1)) THEN "inconclusive"
    ELSE "authentic"

\* the highest active score minus the lowest exceeds 40
SpreadAbove40 ==
    \E m \in ActiveSet, k \in ActiveSet :
        RatGT(RatSub(locals[ScoreKey(m)], locals[ScoreKey(k)]), Rat(40, 1))

\* the explanation ends with the score-variance note
HasVarianceNote ==
    /\ Len(result.explanation) = Len(result.active_modalities) + 1
    /\ result.explanation[Len(result.explanation)].phrase = "variance"

\* C19: the explanation of a successful result holds exactly one phrase per
\* active modality, in their order, chosen by the bracket of the modality's
\* score (below 40, 40 to 70, above 70) and annotated with its resolved
\* weight as a percentage, and it holds the score-variance note if and only
\* if at least two modalities are active and the highest active score minus
\* the lowest exceeds 40.
C19_Explanation ==
    Succeeded =>
        /\ Len(result.explanation) \in {Len(result.active_modalities),
                                        Len(result.active_modalities) + 1}
        /\ \A i \in 1..Len(result.active_modalities) :
              /\ result.explanation[i].modality = result.active_modalities[i]
              /\ result.explanation[i].phrase
                     = Bracket(locals[ScoreKey(result.active_modalities[i])])
              /\ result.explanation[i].number
                     \in RoundSet(RatMul(locals.weights[result.active_modalities[i]],
                                         Rat(100, 1)), 1)
        /\ HasVarianceNote <=> (Len(result.active_modalities) >= 2 /\ SpreadAbove40)

\* three active modalities, one in each bracket (the middle one on 70), and
\* the variance note
C19_Witness ==
    /\ Succeeded
    /\ ScoreOf("video") = Rat(70, 1)
    /\ ScoreOf("audio") = Rat(100, 1)
    /\ ScoreOf("text") = Rat(3999, 100)
    /\ Len(result.explanation) = 4
    /\ result.explanation[1].phrase = "inconclusive"
    /\ result.explanation[2].phrase = "authentic"
    /\ result.explanation[3].phrase = "manipulation"
    /\ HasVarianceNote

\* C20: determine_verdict maps a score s to AUTHENTIC when s >= 70, to
\* SUSPICIOUS when 40 <= s < 70 and to LIKELY FAKE when s < 40, the
\* boundaries on the upper side: 70.00 gives AUTHENTIC, 69.999 SUSPICIOUS,
\* 40.00 SUSPICIOUS and 39.999 LIKELY FAKE.
C20_VerdictBoundaries ==
    Succeeded =>
        /\ result.verdict =
              (IF RatGE(locals.final_score, Rat(70, 1)) THEN "AUTHENTIC"
               ELSE IF RatGE(locals.final_score, Rat(40, 1)) THEN "SUSPICIOUS"
               ELSE "LIKELY FAKE")
        /\ locals.final_score = Rat(70, 1) => result.verdict = "AUTHENTIC"
        /\ locals.final_score = Rat(69999, 1000) => result.verdict = "SUSPICIOUS"
        /\ locals.final_score = Rat(40, 1) => result.verdict = "SUSPICIOUS"
        /\ locals.final_score = Rat(39999, 1000) => result.verdict = "LIKELY FAKE"

\* the score 69.999, one thousandth under the threshold
C20_Witness ==
    /\ Succeeded
    /\ locals.final_score = Rat(69999, 1000)
    /\ result.verdict = "SUSPICIOUS"
    /\ result.active_modalities = <<"audio">>

\* extract_video_frames has returned its frames
FramesReturned == helper.function = "extract_video_frames" /\ helper.pc = "returned"

\* the frames kept are those of an even stride from the first frame of the
\* video to within one stride of its last
EvenlyOverWholeVideo ==
    \/ helper.total_frames = 0 /\ helper.frames = <<>>
    \/ \E stride \in 1..helper.total_frames :
          /\ helper.frames # <<>>
          /\ \A i \in 1..Len(helper.frames) : helper.frames[i] = (i - 1) * stride
          /\ helper.frames[Len(helper.frames)] + stride >= helper.total_frames

\* C21: frame extraction with max_frames=50 on a video of T readable frames
\* returns at most 50 frames, sampled at an even stride over the video's
\* whole frame range, and fewer than 50 only when the video has fewer than
\* 50 frames; so a video of at least 50 frames is analysed on 50 frames and
\* gets video confidence 100.
C21_EvenSampleOfFifty ==
    FramesReturned =>
        /\ Len(helper.frames) <= max_frames
        /\ EvenlyOverWholeVideo
        /\ Len(helper.frames) < max_frames => helper.total_frames < max_frames
        /\ helper.total_frames >= max_frames =>
              /\ Len(helper.frames) = max_frames
              /\ video_confidence(Len(helper.frames)) = Rat(100, 1)

\* extract_claims has returned its claims
ClaimsReturned == helper.function = "extract_claims" /\ helper.pc = "returned"

\* where the fragments of a text begin: after a terminator or at the start
FragmentStarts(text) ==
    {i \in 1..Len(text) :
        ~IsTerminator(text[i]) /\ (i = 1 \/ IsTerminator(text[i - 1]))}

\* the fragment beginning at i, without the white space around it
TrimmedFragment(text, i) ==
    LET j == CHOOSE e \in i..Len(text) :
                 /\ \A k \in i..e : ~IsTerminator(text[k])
                 /\ (e = Len(text) \/ IsTerminator(text[e + 1]))
        solid == {k \in i..j : ~IsSpace(text[k])}
    IN IF solid = {} THEN <<>>
       ELSE SubSeq(text, Least(solid),
                   CHOOSE last \in solid : \A other \in solid : last >= other)

\* the n-th smallest member of a set of integers
Nth(S, n) == CHOOSE i \in S : Cardinality({k \in S : k < i}) = n - 1

\* claims is, in order, the trimmed fragments at the given starts
IsInOrder(claims, text, starts) ==
    /\ Len(claims) = Cardinality(starts)
    /\ \A n \in 1..Len(claims) : claims[n] = TrimmedFragment(text, Nth(starts, n))

\* C22: claim extraction splits the text on runs of sentence terminators,
\* trims each fragment, and keeps, in original order, exactly the fragments
\* of more than 10 characters: a trimmed fragment of length 11 or more is
\* kept and one of length 10 or less is discarded.
C22_KeepsLongerThan10 ==
    ClaimsReturned =>
        IsInOrder(helper.claims, helper.text,
                  {i \in FragmentStarts(helper.text) :
                      Len(TrimmedFragment(helper.text, i)) >= 11})

\* the claim as stated: a trimmed fragment of length 10 or more is kept and
\* one of length 9 or less is discarded
C22_KeepsFrom10 ==
    ClaimsReturned =>
        IsInOrder(helper.claims, helper.text,
                  {i \in FragmentStarts(helper.text) :
                      Len(TrimmedFragment(helper.text, i)) >= 10})

\* a text with a fragment of 10 characters inside white space and one of 11
\* has been through extract_claims, which kept the second only
C22_Witness ==
    /\ ClaimsReturned
    /\ helper.text = <<" ">> \o Words(1, 10) \o <<"\n", "?", "!">> \o Words(1, 11)
    /\ helper.claims = <<Words(1, 11)>>

\* check_sentence_quality has returned
QualityReturned == helper.function = "check_sentence_quality" /\ helper.pc = "returned"

\* the starts of the fragments of the text under check_sentence_quality with
\* at least minLength characters and a word count that satisfies counted
Sentences(minLength, counted(_)) ==
    {i \in FragmentStarts(helper.text) :
        /\ Len(TrimmedFragment(helper.text, i)) >= minLength
        /\ counted(WordCount(TrimmedFragment(helper.text, i)))}

AnyCount(n) == TRUE
From5To30(n) == 5 <= n /\ n <= 30
FourOrOver30(n) == n = 4 \/ n > 30

\* helper.quality is the fraction halves / (2 * sentences), or 0 of none
QualityIs(halves, sentences) ==
    IF sentences = 0 THEN helper.quality.num = 0
    ELSE helper.quality.num * 2 * sentences = halves * helper.quality.den

\* C23: sentence_quality is, over the sentences of more than 10 characters,
\* the number of those with 5 to 30 words plus half the number of those with
\* 4 words or more than 30, divided by the number of sentences; a sentence
\* of fewer than 4 words contributes nothing, and the result is 0 when no
\* sentence qualifies.
C23_SentenceQuality ==
    QualityReturned =>
        QualityIs(2 * Cardinality(Sentences(11, From5To30))
                    + Cardinality(Sentences(11, FourOrOver30)),
                  Cardinality(Sentences(11, AnyCount)))

\* the claim as stated: the fraction of the sentences of at least 10
\* characters whose word count lies in [5, 30], the others adding nothing
C23_FractionFrom5To30 ==
    QualityReturned =>
        QualityIs(2 * Cardinality(Sentences(10, From5To30)),
                  Cardinality(Sentences(10, AnyCount)))

\* a sentence of 31 words and one of 5 have been rated 3/4
C23_Witness ==
    /\ QualityReturned
    /\ helper.text = Words(31, 1) \o <<".">> \o Words(5, 2) \o <<".">>
    /\ helper.quality = Rat(3, 4)

\* detect_artifacts has returned
ArtifactsReturned == helper.function = "detect_artifacts" /\ helper.pc = "returned"

\* the three conditions on the statistics detect_artifacts was given
HighVariance == RatGT(helper.quality_variance, Rat(5, 100))
OddQuality ==
    RatGT(helper.avg_quality, Rat(95, 100)) \/ RatLT(helper.avg_quality, Rat(3, 10))
OddEdges ==
    RatLT(helper.avg_edges, Rat(5, 100)) \/ RatGT(helper.avg_edges, Rat(3, 10))

\* tenths added when a condition holds
Tenths(condition, n) == IF condition THEN n ELSE 0

\* C24: the video artifact score is the sum of three independent increments
\* (+0.3 if quality variance > 0.05, +0.2 if mean quality > 0.95 or < 0.3,
\* +0.2 if mean edge density < 0.05 or > 0.3): each condition adds its
\* increment regardless of the other two, all three together give exactly
\* 0.7, and the score is always one of 0, 0.2, 0.3, 0.4, 0.5, 0.7.
C24_ArtifactIncrements ==
    ArtifactsReturned =>
        /\ helper.artifact_score =
              Rat(Tenths(HighVariance, 3) + Tenths(OddQuality, 2)
                    + Tenths(OddEdges, 2), 10)
        /\ HighVariance /\ OddQuality /\ OddEdges
              => helper.artifact_score = Rat(7, 10)
        /\ helper.artifact_score \in
              {Zero, Rat(2, 10), Rat(3, 10), Rat(4, 10), Rat(5, 10), Rat(7, 10)}

\* all three conditions held and the score is 0.7
C24_Witness ==
    /\ ArtifactsReturned
    /\ HighVariance /\ OddQuality /\ OddEdges
    /\ helper.artifact_score = Rat(7, 10)

\* the scores of the modalities the result lists as active
ResultScores == [m \in ActiveSet |-> ScoreOf(m)]

\* C25: the fusion score is a convex combination of the active scores: in
\* every successful result with at least one modality of score > 0,
\* min(active scores) <= fusion_score <= max(active scores), for every
\* combination of confidences; this holds of the weighted sum and of the
\* fusion_score reported, its rounding to two decimals.
C25_ConvexCombination ==
    (Succeeded /\ \E m \in ModalitySet : SuppliedPositive(m)) =>
        /\ ActiveSet = {m \in ModalitySet : SuppliedPositive(m)}
        /\ RatLE(MinOf(ResultScores, ActiveSet), locals.final_score)
        /\ RatLE(locals.final_score, MaxOf(ResultScores, ActiveSet))
        /\ RatLE(MinOf(ResultScores, ActiveSet), result.fusion_score)
        /\ RatLE(result.fusion_score, MaxOf(ResultScores, ActiveSet))

\* three active modalities with different scores and unequal confidences:
\* the fusion score lies strictly between the lowest and the highest
C25_Witness ==
    /\ Succeeded
    /\ Cardinality(ActiveSet) = 3
    /\ \A m \in ModalitySet : SuppliedPositive(m)
    /\ ConfOf("video") # ConfOf("audio")
    /\ RatLT(MinOf(ResultScores, ActiveSet), result.fusion_score)
    /\ RatLT(result.fusion_score, MaxOf(ResultScores, ActiveSet))

\* every score and confidence the call supplied is a number
AllNumeric ==
    \A m \in ModalitySet :
        ArgOf(m).kind = "dict" =>
            \A k \in {ScoreKey(m), "confidence"} \cap DOMAIN ArgOf(m).d :
                ArgOf(m).d[k].t = "num"

\* the weights calculate_adaptive_weights resolves for the scores of the call
\* and its confidences with that of m replaced by c
WeightsWith(m, c) ==
    calculate_adaptive_weights(
        [k \in ModalitySet |-> Num(ScoreOf(k))],
        [k \in ModalitySet |-> Num(IF k = m THEN c ELSE ConfOf(k))]).weights

\* C26: resolved weights are monotone in confidence: with the scores and the
\* other modalities' confidences held fixed, raising one active modality's
\* confidence never lowers that modality's resolved weight and never raises
\* any other active modality's resolved weight.
C26_WeightsMonotone ==
    (Succeeded /\ AllNumeric) =>
        \A m \in DOMAIN locals.weights :
            \A c \in {r \in TierConfs : RatGT(r, ConfOf(m))} :
                /\ WeightsWith(m, ConfOf(m)) = locals.weights
                /\ DOMAIN WeightsWith(m, c) = DOMAIN locals.weights
                /\ RatGE(WeightsWith(m, c)[m], locals.weights[m])
                /\ \A k \in DOMAIN locals.weights \ {m} :
                       RatLE(WeightsWith(m, c)[k], locals.weights[k])

\* three active modalities, the video at confidence 50: raised to 80 its
\* weight grows and the two others shrink
C26_Witness ==
    /\ Succeeded /\ AllNumeric
    /\ DOMAIN locals.weights = ModalitySet
    /\ ConfOf("video") = Rat(50, 1)
    /\ RatGT(WeightsWith("video", Rat(80, 1))["video"], locals.weights["video"])
    /\ RatLT(WeightsWith("video", Rat(80, 1))["audio"], locals.weights["audio"])
    /\ RatLT(WeightsWith("video", Rat(80, 1))["text"], locals.weights["text"])

\* the record of m is absent, or a record with score 0 and, where it has
\* one, a numeric confidence
AbsentOrZero(m) ==
    \/ Absent(m)
    \/ /\ ArgOf(m).kind = "dict"
       /\ ScoreKey(m) \in DOMAIN ArgOf(m).d
       /\ ArgOf(m).d[ScoreKey(m)] = Num(Zero)
       /\ "confidence" \in DOMAIN ArgOf(m).d => ArgOf(m).d["confidence"].t = "num"

\* what fuse(None, None, None) returns
AllNoneResult == CHOOSE r \in fuse(NoneArg, NoneArg, NoneArg).results : TRUE

\* C27: whenever every supplied modality record has score 0 (for example all
\* analyzers failed, or a text-only request with no extractable claims),
\* fuse returns the same success, active_modalities, weights, fusion_score,
\* verdict and explanation as fuse(None, None, None): success=true rather
\* than ERROR, video listed as the only active modality with weight 1.0 even
\* if no video was supplied, and an explanation attributing manipulation
\* signs to the video.  The records are those with a numeric confidence.
C27_AllZeroAsAllNone ==
    (Done /\ \A m \in ModalitySet : AbsentOrZero(m)) =>
        /\ outcome = "returned"
        /\ result.success = AllNoneResult.success
        /\ result.active_modalities = AllNoneResult.active_modalities
        /\ result.adaptive_weights = AllNoneResult.adaptive_weights
        /\ result.fusion_score = AllNoneResult.fusion_score
        /\ result.verdict = AllNoneResult.verdict
        /\ result.explanation = AllNoneResult.explanation
        /\ result.success
        /\ result.active_modalities = <<"video">>
        /\ result.adaptive_weights = ("video" :> One)
        /\ result.explanation =
              <<[modality |-> "video", phrase |-> "manipulation",
                 number |-> Rat(100, 1)]>>

\* a text-only request whose analysis found no claim (score 0) but reports a
\* confidence: video is the active modality of the result
C27_Witness ==
    /\ Done
    /\ Absent("video") /\ Absent("audio")
    /\ text_result = Record("text", TRUE, Num(Zero), Num(Rat(50, 1)))
    /\ result.success
    /\ result.active_modalities = <<"video">>

\* exactly one modality is active, with a score in (0, 100]
OneActive ==
    /\ Succeeded
    /\ Len(result.active_modalities) = 1
    /\ SuppliedPositive(result.active_modalities[1])
    /\ RatLE(ScoreOf(result.active_modalities[1]), Rat(100, 1))

\* C28: when exactly one modality is active, the explanation phrase agrees
\* with the verdict for every score in (0,100]: the authentic phrase is
\* chosen iff the verdict is AUTHENTIC, the inconclusive phrase iff the
\* verdict is SUSPICIOUS, and the manipulation phrase iff the verdict is
\* LIKELY FAKE.
C28_PhraseAgreesWithVerdict ==
    OneActive =>
        /\ result.explanation[1].phrase = "authentic" <=> result.verdict = "AUTHENTIC"
        /\ result.explanation[1].phrase = "inconclusive" <=> result.verdict = "SUSPICIOUS"
        /\ result.explanation[1].phrase = "manipulation" <=> result.verdict = "LIKELY FAKE"

\* C29: the text confidence boosts never lower confidence: for every claim
\* count >= 1 and every combination of the conditions factual_density > 0.6
\* and sentence_quality > 0.8, the returned confidence is at least the base
\* value min(100, 100*claim_count/5), and satisfying an additional boost
\* condition never yields a lower confidence than not satisfying it.
C29_BoostsNeverLower ==
    (TextAnalyzed /\ analysis.features.claims >= 1) =>
        /\ RatGE(text_result.d["confidence"].q,
                 RatMin(Rat(100, 1), Rat(100 * analysis.features.claims, 5)))
        /\ RatGE(text_confidence(analysis.features),
                 text_confidence([analysis.features EXCEPT !.factual_density = Zero]))
        /\ RatGE(text_confidence(analysis.features),
                 text_confidence([analysis.features EXCEPT !.sentence_quality = Zero]))

\* the video analyzer has returned the record of a successful analysis of at
\* least one processed frame
VideoAnalyzed ==
    /\ analysis.analyzer = "video"
    /\ analysis.raised = "none"
    /\ video_result.d["success"] = Bool(TRUE)
    /\ analysis.features.processed >= 1

\* the request holds the record of a successful video analysis with a
\* numeric score (a success record without a processed frame carries nan)
HoldsVideoScore ==
    /\ video_result.kind = "dict"
    /\ "success" \in DOMAIN video_result.d
    /\ video_result.d["success"] = Bool(TRUE)
    /\ video_result.d["video_score"].t = "num"

====
